---- MODULE Spec2Model ----
(***************************************************************************)
(* Model of the dashboard agent of guptaachin/observability-agent:         *)
(* src/src/agent.py (agent_node and its helpers) over the gateway          *)
(* interface of src/src/tools.py; the gateway itself (src/src/tools.py,    *)
(* src/src/mcp_client.py) from the remote tool call to the records it      *)
(* returns; the time-range resolver of src/src/agent/query_parser.py.      *)
(*                                                                         *)
(* Python str values are TLA+ strings; str methods are the operators of    *)
(* the first section, computed character by character.                    *)
(***************************************************************************)
EXTENDS Integers, Sequences, FiniteSets, TLC

VARIABLES
    pc,             \* position of the invocation in agent_node
    state,          \* the mapping agent_node was called with
    query,          \* local: state.get("query", "").strip()
    response_text,  \* local: llm_response.content
    intent,         \* local: _extract_intent(query)
    filter_term,    \* local: _extract_filter_term(query)
    result,         \* the mapping agent_node returned
    raised,         \* the exception that left agent_node, "" if none
    llm_calls,      \* llm.ainvoke calls made by this invocation
    tool_calls,     \* gateway operations called by this invocation, in order
    remote_calls,   \* MCP tool calls made by the gateway for this invocation
    timeout,        \* config.agent.timeout handed to agent_node
    clock,          \* time units elapsed since the invocation started
    expired,        \* the timeout passed while a call was in flight
    prev,           \* the last non-success outcome returned by an earlier invocation
    llm_outcome,    \* how llm.ainvoke ended: "", "returned" or the exception raised
    gateway_outcome,\* how the gateway operation ended: "", "returned" or the exception
    gateway_result, \* local `dashboards`: the list the gateway operation returned
    classified,     \* the value _extract_intent returned when applied on its own
    operation,      \* the function applied on its own, "" if none
    argument,       \* its argument: a list, a search term, a relative time expression
    remote,         \* how session.call_tool ended, or what the model replied
    payload,        \* the value _call_tool / _call returned
    call_outcome    \* how the function ended: the value returned or the exception raised

vars == <<pc, state, query, response_text, intent, filter_term, result, raised,
          llm_calls, tool_calls, remote_calls, timeout, clock, expired, prev,
          llm_outcome, gateway_outcome, gateway_result, classified,
          operation, argument, remote, payload, call_outcome>>

\* the variables of a function applied on its own
callVars == <<operation, argument, remote, payload, call_outcome>>

-----------------------------------------------------------------------------
(* Python str operations *)

UpperChars == "ABCDEFGHIJKLMNOPQRSTUVWXYZ"
LowerChars == "abcdefghijklmnopqrstuvwxyz"

\* str.lower() on one character
LowerChar(c) ==
    IF \E i \in 1..Len(UpperChars) : SubSeq(UpperChars, i, i) = c
    THEN LET i == CHOOSE j \in 1..Len(UpperChars) : SubSeq(UpperChars, j, j) = c
         IN  SubSeq(LowerChars, i, i)
    ELSE c

\* str.lower()
RECURSIVE Lower(_)
Lower(s) == IF s = "" THEN "" ELSE LowerChar(Head(s)) \o Lower(Tail(s))

\* the characters str.strip() and str.split() treat as whitespace
Whitespace == {" ", "\t", "\n", "\r", "\f"}

\* s[i] as a one-character string
CharAt(s, i) == SubSeq(s, i, i)

\* str.lstrip(chars)
RECURSIVE LStripChars(_, _)
LStripChars(s, chars) ==
    IF s # "" /\ Head(s) \in chars THEN LStripChars(Tail(s), chars) ELSE s

\* str.rstrip(chars)
RECURSIVE RStripChars(_, _)
RStripChars(s, chars) ==
    IF s # "" /\ CharAt(s, Len(s)) \in chars
    THEN RStripChars(SubSeq(s, 1, Len(s) - 1), chars)
    ELSE s

\* str.strip(chars)
StripChars(s, chars) == RStripChars(LStripChars(s, chars), chars)

\* str.strip()
Strip(s) == StripChars(s, Whitespace)

\* s.startswith(prefix)
StartsWith(s, prefix) ==
    Len(prefix) <= Len(s) /\ SubSeq(s, 1, Len(prefix)) = prefix

\* sub in s
Contains(s, sub) ==
    \E i \in 1..(Len(s) - Len(sub) + 1) : SubSeq(s, i, i + Len(sub) - 1) = sub

\* s.find(sub) + 1: the first position of sub in s, 0 when absent
Find(s, sub) ==
    IF Contains(s, sub)
    THEN CHOOSE i \in 1..(Len(s) - Len(sub) + 1) :
            /\ SubSeq(s, i, i + Len(sub) - 1) = sub
            /\ \A j \in 1..(i - 1) : SubSeq(s, j, j + Len(sub) - 1) # sub
    ELSE 0

\* s.split(sep), sep non-empty: the pieces between the occurrences of sep
RECURSIVE Split(_, _)
Split(s, sep) ==
    LET i == Find(s, sep) IN
    IF i = 0 THEN <<s>>
    ELSE <<SubSeq(s, 1, i - 1)>> \o Split(SubSeq(s, i + Len(sep), Len(s)), sep)

\* s.split(sep, 1): at most one split
Split1(s, sep) ==
    LET i == Find(s, sep) IN
    IF i = 0 THEN <<s>>
    ELSE <<SubSeq(s, 1, i - 1), SubSeq(s, i + Len(sep), Len(s))>>

\* s.replace(old, new), old non-empty
RECURSIVE Replace(_, _, _)
Replace(s, old, new) ==
    LET i == Find(s, old) IN
    IF i = 0 THEN s
    ELSE SubSeq(s, 1, i - 1) \o new \o Replace(SubSeq(s, i + Len(old), Len(s)), old, new)

\* the first whitespace-delimited word of s, s without leading whitespace
RECURSIVE FirstWord(_)
FirstWord(s) ==
    IF s = "" \/ Head(s) \in Whitespace THEN "" ELSE Head(s) \o FirstWord(Tail(s))

\* s.split(): the whitespace-delimited words of s
RECURSIVE Words(_)
Words(s) ==
    LET t == LStripChars(s, Whitespace) IN
    IF t = "" THEN <<>>
    ELSE LET w == FirstWord(t) IN <<w>> \o Words(SubSeq(t, Len(w) + 1, Len(t)))

\* sep.join(parts)
RECURSIVE Join(_, _)
Join(sep, parts) ==
    IF parts = <<>> THEN ""
    ELSE IF Len(parts) = 1 THEN parts[1]
    ELSE parts[1] \o sep \o Join(sep, Tail(parts))

\* any(keyword in s for keyword in keywords)
ContainsAny(s, keywords) == \E k \in keywords : Contains(s, k)

-----------------------------------------------------------------------------
(* src/src/agent.py: the helpers of agent_node *)

out_of_scope_keywords ==
    {"cannot", "can't", "not able to", "not able", "out of scope", "i cannot", "i can't"}

\* _is_out_of_scope without the lower() of the reply
_is_out_of_scope_CaseSensitive(response, q) ==
    ContainsAny(response, out_of_scope_keywords)

\* the scope guard: a substring test on the lowercased model reply
_is_out_of_scope(response, q) == ContainsAny(Lower(response), out_of_scope_keywords)

list_keywords == {"show all", "list", "give me", "what dashboards", "all dashboards"}
filter_keywords == {"with", "where", "filter", "search", "matching", "related"}
dashboard_context_terms ==
    {"dashboard", "updated", "last", "created", "database", "service", "api",
     "performance", "health"}
info_keywords == {"when", "what", "tell me", "info", "about", "time", "update"}

\* _extract_intent with the filter keywords tested before the list keywords
_extract_intent_FilterFirst(q) ==
    LET query_lower == Lower(q) IN
    IF ContainsAny(query_lower, filter_keywords) THEN "filter"
    ELSE IF ContainsAny(query_lower, list_keywords) THEN "list"
    ELSE IF /\ ContainsAny(query_lower, dashboard_context_terms)
            /\ ContainsAny(query_lower, info_keywords) THEN "get_info"
    ELSE "unknown"

\* the heuristic classifier
_extract_intent(q) ==
    LET query_lower == Lower(q) IN
    IF ContainsAny(query_lower, list_keywords) THEN "list"
    ELSE IF ContainsAny(query_lower, filter_keywords) THEN "filter"
    ELSE IF /\ ContainsAny(query_lower, dashboard_context_terms)
            /\ ContainsAny(query_lower, info_keywords) THEN "get_info"
    ELSE "unknown"

\* the filter term of a filter query
_extract_filter_term(q) ==
    IF Contains(q, "'") THEN Split(q, "'")[2]
    ELSE IF Contains(q, "\"") THEN Split(q, "\"")[2]
    ELSE IF Contains(Lower(q), "with")
    THEN LET term == Strip(Split1(Lower(q), "with")[2])
         IN  Strip(Replace(Replace(term, " in the name", ""), " in name", ""))
    ELSE LET words == Words(q) IN
         IF Len(words) > 2
         THEN StripChars(Join(" ", SubSeq(words, Len(words) - 1, Len(words))), {"'", "\""})
         ELSE Strip(q)

-----------------------------------------------------------------------------
(* Python values *)

\* None in a slot that otherwise holds a str (f"{None}" renders it as "None")
PyNone == "None"

\* the elements of a tags list: a str, or a value of another type
PyStr(s) == [type |-> "str", value |-> s]
PyInt(s) == [type |-> "int", value |-> s]

\* bool(x) of an Optional[str]
Truthy(x) == x # "" /\ x # PyNone

\* the empty dict
EmptyDict == [k \in {} |-> ""]

\* {**d, **u}
Merge(d, u) ==
    [k \in (DOMAIN d) \cup (DOMAIN u) |-> IF k \in DOMAIN u THEN u[k] ELSE d[k]]

\* d.get(key, default)
Get(d, key, default) == IF key \in DOMAIN d THEN d[key] ELSE default

\* the values a decoded JSON text is made of; a dict is the sequence of its
\* <<key, value>> pairs in the order of the text
PyNoneVal == [type |-> "NoneType"]
PyBool(b) == [type |-> "bool", value |-> b]
PyList(xs) == [type |-> "list", items |-> xs]
PyDict(ps) == [type |-> "dict", pairs |-> ps]

\* key in d
DictHas(d, key) == \E i \in 1..Len(d.pairs) : d.pairs[i][1] = key

\* d.get(key, default): json.loads keeps the last of two equal keys
DictGet(d, key, default) ==
    IF DictHas(d, key)
    THEN LET i == CHOOSE j \in 1..Len(d.pairs) :
                    /\ d.pairs[j][1] = key
                    /\ \A k \in (j + 1)..Len(d.pairs) : d.pairs[k][1] # key
         IN  d.pairs[i][2]
    ELSE default

\* bool(v)
PyTruthy(v) ==
    CASE v.type = "NoneType" -> FALSE
      [] v.type = "bool" -> v.value
      [] v.type = "str" -> v.value # ""
      [] v.type = "int" -> v.value \notin {"0", "-0"}
      [] v.type = "list" -> v.items # <<>>
      [] v.type = "dict" -> v.pairs # <<>>

\* a or b
PyOr(a, b) == IF PyTruthy(a) THEN a ELSE b

\* str(v) of a scalar
PyStrOf(v) ==
    CASE v.type = "str" -> v.value
      [] v.type = "int" -> v.value
      [] v.type = "NoneType" -> "None"
      [] v.type = "bool" -> IF v.value THEN "True" ELSE "False"

-----------------------------------------------------------------------------
(* json.loads on the texts of the model: objects, arrays, strings with the   *)
(* escapes of quote, backslash, slash, n, t and r, integers, true, false,    *)
(* null                                                                      *)

JsonWhitespace == {" ", "\t", "\n", "\r"}
Digits == {"0", "1", "2", "3", "4", "5", "6", "7", "8", "9"}

JsonFail == [ok |-> FALSE]
JsonOk(v, next) == [ok |-> TRUE, value |-> v, next |-> next]

\* the first position from i on that holds no whitespace
RECURSIVE SkipWs(_, _)
SkipWs(s, i) ==
    IF i <= Len(s) /\ CharAt(s, i) \in JsonWhitespace THEN SkipWs(s, i + 1) ELSE i

\* the characters of a string literal from position i (after the opening
\* quote) up to the closing quote
RECURSIVE JsonString(_, _, _)
JsonString(s, i, acc) ==
    IF i > Len(s) THEN JsonFail
    ELSE LET c == CharAt(s, i) IN
         IF c = "\"" THEN JsonOk(acc, i + 1)
         ELSE IF c = "\\"
         THEN IF i + 1 > Len(s) THEN JsonFail
              ELSE LET e == CharAt(s, i + 1) IN
                   IF e \in {"\"", "\\", "/"} THEN JsonString(s, i + 2, acc \o e)
                   ELSE IF e = "n" THEN JsonString(s, i + 2, acc \o "\n")
                   ELSE IF e = "t" THEN JsonString(s, i + 2, acc \o "\t")
                   ELSE IF e = "r" THEN JsonString(s, i + 2, acc \o "\r")
                   ELSE JsonFail
         ELSE IF c \in {"\n", "\t", "\r"} THEN JsonFail
         ELSE JsonString(s, i + 1, acc \o c)

\* the digits from position i on
RECURSIVE JsonDigits(_, _)
JsonDigits(s, i) ==
    IF i <= Len(s) /\ CharAt(s, i) \in Digits
    THEN CharAt(s, i) \o JsonDigits(s, i + 1)
    ELSE ""

\* an integer literal at position i
JsonInt(s, i) ==
    LET sign == IF CharAt(s, i) = "-" THEN "-" ELSE ""
        digits == JsonDigits(s, i + Len(sign))
    IN  IF digits = "" \/ (Len(digits) > 1 /\ Head(digits) = "0") THEN JsonFail
        ELSE JsonOk(PyInt(sign \o digits), i + Len(sign) + Len(digits))

RECURSIVE JsonValue(_, _)
RECURSIVE JsonElements(_, _, _)
RECURSIVE JsonMembers(_, _, _)

\* the elements of an array from position i on, after those of acc
JsonElements(s, i, acc) ==
    LET v == JsonValue(s, i) IN
    IF ~v.ok THEN JsonFail
    ELSE LET j == SkipWs(s, v.next) IN
         IF j > Len(s) THEN JsonFail
         ELSE IF CharAt(s, j) = "," THEN JsonElements(s, j + 1, Append(acc, v.value))
         ELSE IF CharAt(s, j) = "]" THEN JsonOk(PyList(Append(acc, v.value)), j + 1)
         ELSE JsonFail

\* the members of an object from position i on, after those of acc
JsonMembers(s, i, acc) ==
    LET j == SkipWs(s, i) IN
    IF j > Len(s) \/ CharAt(s, j) # "\"" THEN JsonFail
    ELSE LET key == JsonString(s, j + 1, "") IN
         IF ~key.ok THEN JsonFail
         ELSE LET k == SkipWs(s, key.next) IN
              IF k > Len(s) \/ CharAt(s, k) # ":" THEN JsonFail
              ELSE LET v == JsonValue(s, k + 1) IN
                   IF ~v.ok THEN JsonFail
                   ELSE LET m == SkipWs(s, v.next)
                            all == Append(acc, <<key.value, v.value>>)
                        IN  IF m > Len(s) THEN JsonFail
                            ELSE IF CharAt(s, m) = "," THEN JsonMembers(s, m + 1, all)
                            ELSE IF CharAt(s, m) = "}" THEN JsonOk(PyDict(all), m + 1)
                            ELSE JsonFail

\* the value that starts at position i, after whitespace
JsonValue(s, i) ==
    LET j == SkipWs(s, i) IN
    IF j > Len(s) THEN JsonFail
    ELSE LET c == CharAt(s, j) IN
         IF c = "{"
         THEN LET k == SkipWs(s, j + 1) IN
              IF k <= Len(s) /\ CharAt(s, k) = "}" THEN JsonOk(PyDict(<<>>), k + 1)
              ELSE JsonMembers(s, j + 1, <<>>)
         ELSE IF c = "["
         THEN LET k == SkipWs(s, j + 1) IN
              IF k <= Len(s) /\ CharAt(s, k) = "]" THEN JsonOk(PyList(<<>>), k + 1)
              ELSE JsonElements(s, j + 1, <<>>)
         ELSE IF c = "\""
         THEN LET str == JsonString(s, j + 1, "") IN
              IF str.ok THEN JsonOk(PyStr(str.value), str.next) ELSE JsonFail
         ELSE IF StartsWith(SubSeq(s, j, Len(s)), "true") THEN JsonOk(PyBool(TRUE), j + 4)
         ELSE IF StartsWith(SubSeq(s, j, Len(s)), "false") THEN JsonOk(PyBool(FALSE), j + 5)
         ELSE IF StartsWith(SubSeq(s, j, Len(s)), "null") THEN JsonOk(PyNoneVal, j + 4)
         ELSE IF c = "-" \/ c \in Digits THEN JsonInt(s, j)
         ELSE JsonFail

\* json.loads(s): ok is false where it raises json.JSONDecodeError
json_loads(s) ==
    LET v == JsonValue(s, 1) IN
    IF v.ok /\ SkipWs(s, v.next) > Len(s) THEN [ok |-> TRUE, value |-> v.value]
    ELSE JsonFail

-----------------------------------------------------------------------------
(* src/src/tools.py: DashboardMetadata *)

\* DashboardMetadata.to_dict; a tags list is never None in the model, and
\* to_dict turns a None tags into [] anyway
to_dict(d) ==
    [id |-> d.id, uid |-> d.uid, title |-> d.title, updated |-> d.updated,
     folder_title |-> d.folder_title, tags |-> d.tags, org_id |-> d.org_id,
     starred |-> d.starred]

\* ', '.join(tags) raises TypeError on an element that is not a str
JoinRaises(tags) == \E i \in 1..Len(tags) : tags[i].type # "str"

TagValues(tags) == [i \in 1..Len(tags) |-> tags[i].value]

\* EntryLines numbering from 0: enumerate(dashboards) without its start
EntryLines_ZeroBased(i, dashboard) ==
    <<ToString(i - 1) \o ". " \o dashboard.title>>
    \o (IF Truthy(dashboard.folder_title)
        THEN <<"   Folder: " \o dashboard.folder_title>> ELSE <<>>)
    \o <<"   Last updated: " \o dashboard.updated>>
    \o (IF dashboard.tags # <<>>
        THEN <<"   Tags: " \o Join(", ", TagValues(dashboard.tags))>> ELSE <<>>)
    \o <<"">>

\* the lines _format_dashboard_list appends for the i-th dashboard
EntryLines(i, dashboard) ==
    <<ToString(i) \o ". " \o dashboard.title>>
    \o (IF Truthy(dashboard.folder_title)
        THEN <<"   Folder: " \o dashboard.folder_title>> ELSE <<>>)
    \o <<"   Last updated: " \o dashboard.updated>>
    \o (IF dashboard.tags # <<>>
        THEN <<"   Tags: " \o Join(", ", TagValues(dashboard.tags))>> ELSE <<>>)
    \o <<"">>

RECURSIVE AllEntryLines(_, _)
AllEntryLines(dashboards, i) ==
    IF i > Len(dashboards) THEN <<>>
    ELSE EntryLines(i, dashboards[i]) \o AllEntryLines(dashboards, i + 1)

\* _format_dashboard_list raises (TypeError from the join of the tags)
_format_dashboard_list_raises(dashboards) ==
    \E i \in 1..Len(dashboards) :
        dashboards[i].tags # <<>> /\ JoinRaises(dashboards[i].tags)

\* _format_dashboard_list, where it does not raise
_format_dashboard_list(dashboards) ==
    IF dashboards = <<>> THEN "No dashboards found."
    ELSE Strip(Join("\n",
            <<"Found " \o ToString(Len(dashboards)) \o " dashboard(s):\n">>
            \o AllEntryLines(dashboards, 1)))

-----------------------------------------------------------------------------
(* src/src/agent.py: agent_node *)

EmptyQueryMessage ==
    "Please provide a query about dashboards (e.g., 'Show me all dashboards')."
InvalidQueryMessage ==
    "I didn't understand your request. Please ask about dashboards, e.g., 'Show me all dashboards' or 'List dashboards with prod in the name'."
ConnectionErrorMessage ==
    "Unable to connect to Grafana. Please check your configuration and ensure the MCP server is running."
DataErrorMessage ==
    "Grafana returned incomplete data. Please try again or contact your administrator."
TimeoutMessage == "Query took too long to process. Please try again."
InternalErrorMessage == "An unexpected error occurred. Please try again."
NoDashboardsMessage == "No dashboards found in Grafana."
NoMatchMessage(term) == "No dashboards match your criteria: '" \o term \o "'"

\* how a try statement is left: by a return statement or by an exception
Returned(r) == [kind |-> "return", value |-> r]
Raised(exc) == [kind |-> "raise", value |-> exc]

\* the classes the handler "except Exception" catches
ExceptionSubclasses ==
    {"Exception", "asyncio.TimeoutError", "TypeError", "GrafanaConnectionError",
     "GrafanaAuthError", "GrafanaDataError"}

\* ExceptOuter without the handler "except Exception": the exception leaves
\* agent_node
ExceptOuter_Reraise(st, exc) ==
    IF exc = "asyncio.TimeoutError"
    THEN Returned(Merge(st, [response |-> TimeoutMessage, status |-> "error",
                             error_code |-> "timeout"]))
    ELSE Raised(exc)

\* ExceptOuter with the exception's name in the message of internal_error
ExceptOuter_EmbedsText(st, exc) ==
    IF exc = "asyncio.TimeoutError"
    THEN Returned(Merge(st, [response |-> TimeoutMessage, status |-> "error",
                             error_code |-> "timeout"]))
    ELSE Returned(Merge(st, [response |-> "An unexpected error occurred: " \o exc,
                             status |-> "error", error_code |-> "internal_error"]))

\* the handlers of the outer try statement
ExceptOuter(st, exc) ==
    IF exc = "asyncio.TimeoutError"
    THEN Returned(Merge(st, [response |-> TimeoutMessage, status |-> "error",
                             error_code |-> "timeout"]))
    ELSE IF exc \in ExceptionSubclasses
    THEN Returned(Merge(st, [response |-> InternalErrorMessage, status |-> "error",
                             error_code |-> "internal_error"]))
    ELSE Raised(exc)

\* ExceptInner whose connection handler returns the list fetched so far
ExceptInner_LeaksData(st, i, exc) ==
    IF exc = "GrafanaConnectionError"
    THEN Returned(Merge(st, [response |-> ConnectionErrorMessage, status |-> "error",
                             error_code |-> "grafana_connection_error", intent |-> i,
                             data |-> <<>>]))
    ELSE IF exc = "GrafanaDataError"
    THEN Returned(Merge(st, [response |-> DataErrorMessage, status |-> "error",
                             error_code |-> "grafana_data_error", intent |-> i]))
    ELSE ExceptOuter(st, exc)

\* the handlers of the inner try statement, then those of the outer one
ExceptInner(st, i, exc) ==
    IF exc = "GrafanaConnectionError"
    THEN Returned(Merge(st, [response |-> ConnectionErrorMessage, status |-> "error",
                             error_code |-> "grafana_connection_error", intent |-> i]))
    ELSE IF exc = "GrafanaDataError"
    THEN Returned(Merge(st, [response |-> DataErrorMessage, status |-> "error",
                             error_code |-> "grafana_data_error", intent |-> i]))
    ELSE ExceptOuter(st, exc)

\* Receive without the strip() of the query
Receive_NoStrip(st) ==
    LET q == Get(st, "query", "") IN
    IF q = ""
    THEN [next |-> "done", query |-> q,
          result |-> Merge(st, [response |-> EmptyQueryMessage, status |-> "invalid",
                                error_code |-> "empty_query"])]
    ELSE [next |-> "llm", query |-> q]

\* agent_node up to its first await: the validation of the query
Receive(st) ==
    LET q == Strip(Get(st, "query", "")) IN
    IF q = ""
    THEN [next |-> "done", query |-> q,
          result |-> Merge(st, [response |-> EmptyQueryMessage, status |-> "invalid",
                                error_code |-> "empty_query"])]
    ELSE [next |-> "llm", query |-> q]

\* OnLLMReply with the scope guard consulted only after the classifier found
\* nothing to retrieve
OnLLMReply_GuardLast(st, q, reply) ==
    LET i == _extract_intent(q) IN
    IF i = "list" \/ i = "unknown"
    THEN [next |-> "gateway", intent |-> i, filter_term |-> "",
          op |-> "list_dashboards"]
    ELSE IF i = "filter"
    THEN [next |-> "gateway", intent |-> i,
          filter_term |-> _extract_filter_term(q), op |-> "search_dashboards"]
    ELSE IF _is_out_of_scope(reply, q)
    THEN [next |-> "done", intent |-> "", filter_term |-> "",
          result |-> Merge(st, [response |-> reply, status |-> "out_of_scope",
                                error_code |-> "out_of_scope",
                                intent |-> "out_of_scope"])]
    ELSE [next |-> "done", intent |-> i, filter_term |-> "",
          result |-> Merge(st, [response |-> InvalidQueryMessage,
                                status |-> "invalid", intent |-> "unknown",
                                error_code |-> "invalid_query"])]

\* OnLLMReply with an unknown intent answered by the guidance message
OnLLMReply_UnknownGuidance(st, q, reply) ==
    IF _is_out_of_scope(reply, q)
    THEN [next |-> "done", intent |-> "", filter_term |-> "",
          result |-> Merge(st, [response |-> reply, status |-> "out_of_scope",
                                error_code |-> "out_of_scope",
                                intent |-> "out_of_scope"])]
    ELSE LET i == _extract_intent(q) IN
         IF i = "list"
         THEN [next |-> "gateway", intent |-> i, filter_term |-> "",
               op |-> "list_dashboards"]
         ELSE IF i = "filter"
         THEN [next |-> "gateway", intent |-> i,
               filter_term |-> _extract_filter_term(q), op |-> "search_dashboards"]
         ELSE [next |-> "done", intent |-> i, filter_term |-> "",
               result |-> Merge(st, [response |-> InvalidQueryMessage,
                                     status |-> "invalid", intent |-> "unknown",
                                     error_code |-> "invalid_query"])]

\* agent_node from the model's reply to the gateway call or to a return
OnLLMReply(st, q, reply) ==
    IF _is_out_of_scope(reply, q)
    THEN [next |-> "done", intent |-> "", filter_term |-> "",
          result |-> Merge(st, [response |-> reply, status |-> "out_of_scope",
                                error_code |-> "out_of_scope",
                                intent |-> "out_of_scope"])]
    ELSE LET i == _extract_intent(q) IN
         IF i = "list" \/ i = "unknown"
         THEN [next |-> "gateway", intent |-> i, filter_term |-> "",
               op |-> "list_dashboards"]
         ELSE IF i = "filter"
         THEN [next |-> "gateway", intent |-> i,
               filter_term |-> _extract_filter_term(q), op |-> "search_dashboards"]
         ELSE [next |-> "done", intent |-> i, filter_term |-> "",
               result |-> Merge(st, [response |-> InvalidQueryMessage,
                                     status |-> "invalid", intent |-> "unknown",
                                     error_code |-> "invalid_query"])]

\* OnGatewayReturn that leaves the empty list to _format_dashboard_list
OnGatewayReturn_FormatsEmpty(st, i, term, dashboards) ==
    IF dashboards # <<>> /\ _format_dashboard_list_raises(dashboards)
    THEN ExceptInner(st, i, "TypeError")
    ELSE Returned(Merge(st,
            [response |-> _format_dashboard_list(dashboards),
             status |-> "success",
             intent |-> i,
             data |-> [j \in 1..Len(dashboards) |-> to_dict(dashboards[j])]]))

\* OnGatewayReturn that does not set the status of a success
OnGatewayReturn_KeepsStatus(st, i, term, dashboards) ==
    IF dashboards # <<>> /\ _format_dashboard_list_raises(dashboards)
    THEN ExceptInner(st, i, "TypeError")
    ELSE Returned(Merge(st,
            [response |-> IF dashboards = <<>>
                          THEN IF i = "filter" THEN NoMatchMessage(term)
                               ELSE NoDashboardsMessage
                          ELSE _format_dashboard_list(dashboards),
             intent |-> i,
             data |-> [j \in 1..Len(dashboards) |-> to_dict(dashboards[j])]]))

\* agent_node from the gateway's return value to its return
OnGatewayReturn(st, i, term, dashboards) ==
    IF dashboards # <<>> /\ _format_dashboard_list_raises(dashboards)
    THEN ExceptInner(st, i, "TypeError")
    ELSE Returned(Merge(st,
            [response |-> IF dashboards = <<>>
                          THEN IF i = "filter" THEN NoMatchMessage(term)
                               ELSE NoDashboardsMessage
                          ELSE _format_dashboard_list(dashboards),
             status |-> "success",
             intent |-> i,
             data |-> [j \in 1..Len(dashboards) |-> to_dict(dashboards[j])]]))

\* SearchRefused that tests "not query" only
SearchRefused_EmptyOnly(term) == term = ""

\* src/src/tools.py, search_dashboards: an empty term is refused before the
\* remote call
SearchRefused(term) == term = "" \/ Strip(term) = ""

-----------------------------------------------------------------------------
(* src/src/tools.py: GrafanaMCPTool, from the remote tool call to the records *)

\* how session.call_tool ends: with a result (its content blocks and its
\* isError flag) or with an exception of the transport
RemoteResult(content, isError) ==
    [kind |-> "result", content |-> content, isError |-> isError]
RemoteFailure(exc) == [kind |-> "raise", value |-> exc]

TextBlock(text) == [type |-> "text", text |-> text]
ImageBlock == [type |-> "image", data |-> "iVBORw0KGgo="]

\* [block.text for block in content if hasattr(block, 'text')]
RECURSIVE content_parts(_)
content_parts(content) ==
    IF content = <<>> THEN <<>>
    ELSE (IF "text" \in DOMAIN Head(content) THEN <<Head(content).text>> ELSE <<>>)
         \o content_parts(Tail(content))

\* combined.strip().startswith(('[', '{'))
LooksLikeJson(text) == StartsWith(Strip(text), "[") \/ StartsWith(Strip(text), "{")

\* lines 141-144: the decoded value, or the text itself where json.loads raised
DecodedOrText(decoded, combined) ==
    IF decoded.ok THEN Returned(decoded.value) ELSE Returned(PyStr(combined))

\* lines 139-145: what _call_tool returns for the joined text
PayloadOfText(combined) ==
    IF LooksLikeJson(combined) THEN DecodedOrText(json_loads(combined), combined)
    ELSE Returned(PyStr(combined))

\* _call_tool after session.call_tool ended with r; the isError flag of the
\* result is not read
_call_tool(r) ==
    IF r.kind = "raise" THEN Raised("GrafanaConnectionError")
    ELSE IF r.content # <<>> THEN PayloadOfText(Join("\n", content_parts(r.content)))
    ELSE Returned(PyNoneVal)

\* DashboardMetadata(...) as _parse_dashboard fills it from the dict data
DashboardFromDict(data) ==
    [id |-> PyStr(PyStrOf(DictGet(data, "id", PyStr("")))),
     uid |-> DictGet(data, "uid", PyStr("")),
     title |-> DictGet(data, "title", PyStr("Untitled")),
     updated |-> DictGet(data, "updated", DictGet(data, "updatedAt", PyStr(""))),
     folder_title |-> PyOr(PyOr(DictGet(data, "folderTitle", PyNoneVal),
                                DictGet(data, "folder_title", PyNoneVal)),
                           DictGet(data, "folderName", PyNoneVal)),
     tags |-> DictGet(data, "tags", PyList(<<>>)),
     org_id |-> PyOr(DictGet(data, "orgId", PyInt("1")),
                     DictGet(data, "org_id", PyInt("1"))),
     starred |-> PyOr(DictGet(data, "isStarred", PyBool(FALSE)),
                      DictGet(data, "starred", PyBool(FALSE)))]

\* lines 351-360: .get on anything but a dict raises AttributeError
ParseDecoded(decoded) ==
    IF ~decoded.ok THEN Raised("json.JSONDecodeError")
    ELSE IF decoded.value.type # "dict" THEN Raised("AttributeError")
    ELSE Returned(DashboardFromDict(decoded.value))

\* _parse_dashboard: a str is decoded first
_parse_dashboard(data) ==
    IF data.type = "str" THEN ParseDecoded(json_loads(data.value))
    ELSE ParseDecoded([ok |-> TRUE, value |-> data])

\* UnwrapDict that looks for "results" before "dashboards"
UnwrapDict_ResultsFirst(d) ==
    IF d.type # "dict" THEN d
    ELSE IF DictHas(d, "results") THEN DictGet(d, "results", PyNoneVal)
    ELSE IF DictHas(d, "dashboards") THEN DictGet(d, "dashboards", PyNoneVal)
    ELSE PyList(<<d>>)

\* lines 310-321: a dict gives the list under "dashboards", else the one under
\* "results", else stands for itself; what is no list becomes a list of one
UnwrapDict(d) ==
    IF d.type # "dict" THEN d
    ELSE IF DictHas(d, "dashboards") THEN DictGet(d, "dashboards", PyNoneVal)
    ELSE IF DictHas(d, "results") THEN DictGet(d, "results", PyNoneVal)
    ELSE PyList(<<d>>)

ItemsOf(unwrapped) ==
    [early |-> FALSE,
     items |-> IF unwrapped.type = "list" THEN unwrapped.items ELSE <<unwrapped>>]

\* lines 303-308: a str payload that does not decode gives [] at once
NormalizeDecoded(decoded) ==
    IF ~decoded.ok THEN [early |-> TRUE] ELSE ItemsOf(UnwrapDict(decoded.value))

\* the list _parse_dashboard_list iterates over (lines 299-321); early is
\* true where it returns [] before that
NormalizePayload(data) ==
    IF data.type = "NoneType" THEN [early |-> TRUE]
    ELSE IF data.type = "str" THEN NormalizeDecoded(json_loads(data.value))
    ELSE ItemsOf(UnwrapDict(data))

\* lines 326-332: one item of the loop, skipped where _parse_dashboard raises
KeepParsed(parsed) == IF parsed.kind = "return" THEN <<parsed.value>> ELSE <<>>

\* the loop of lines 325-332
RECURSIVE ParseItems(_)
ParseItems(items) ==
    IF items = <<>> THEN <<>>
    ELSE KeepParsed(_parse_dashboard(Head(items))) \o ParseItems(Tail(items))

\* the loop without a try statement of its own: the first malformed item ends
\* the batch in the outer handler
ParseNormalized_FailsBatch(n) ==
    IF n.early THEN Returned(<<>>)
    ELSE IF \E i \in 1..Len(n.items) : _parse_dashboard(n.items[i]).kind = "raise"
    THEN Raised("GrafanaDataError")
    ELSE Returned(ParseItems(n.items))

\* lines 323-332 on the normalized payload
ParseNormalized(n) ==
    IF n.early THEN Returned(<<>>) ELSE Returned(ParseItems(n.items))

\* _parse_dashboard_list that reports a str payload that does not decode as
\* malformed data
_parse_dashboard_list_StrictJson(data) ==
    IF data.type = "str" /\ ~json_loads(data.value).ok THEN Raised("GrafanaDataError")
    ELSE ParseNormalized(NormalizePayload(data))

_parse_dashboard_list(data) == ParseNormalized(NormalizePayload(data))

\* lines 193-205: the exception of _call_tool is raised again, its payload parsed
ParseCalled(called) ==
    IF called.kind = "raise" THEN called ELSE _parse_dashboard_list(called.value)

\* list_dashboards after session.call_tool ended with r
list_dashboards(r) == ParseCalled(_call_tool(r))

\* search_dashboards(term) after session.call_tool ended with r
search_dashboards(term, r) ==
    IF SearchRefused(term) THEN Raised("GrafanaDataError")
    ELSE ParseCalled(_call_tool(r))

-----------------------------------------------------------------------------
(* src/src/mcp_client.py: GrafanaMCP *)

\* line 55: a text that looks like JSON and does not decode ends in the
\* handler of line 58
DecodedOrError(decoded) ==
    IF decoded.ok THEN Returned(decoded.value) ELSE Raised("GrafanaError")

ClientPayloadOfText(text) ==
    IF LooksLikeJson(text) THEN DecodedOrError(json_loads(text))
    ELSE Returned(PyStr(text))

\* GrafanaMCP._call after session.call_tool ended with r
GrafanaMCP_call(r) ==
    IF r.kind = "raise" THEN Raised("GrafanaError")
    ELSE IF r.content # <<>>
    THEN ClientPayloadOfText(Join("\n", content_parts(r.content)))
    ELSE Returned(PyNoneVal)

\* Dashboard(...) as list_dashboards fills it from the dict d
DashboardOfClient(d) ==
    [uid |-> DictGet(d, "uid", PyStr("")),
     title |-> DictGet(d, "title", PyStr("Untitled")),
     folder |-> DictGet(d, "folderTitle", PyNoneVal),
     tags |-> DictGet(d, "tags", PyList(<<>>)),
     url |-> DictGet(d, "url", PyNoneVal)]

\* line 70
ClientUnwrap(data) ==
    IF data.type = "dict"
    THEN DictGet(data, "dashboards", DictGet(data, "results", PyList(<<data>>)))
    ELSE data

\* lines 72-81: d.get on an item that is no dict raises AttributeError
ClientRecords(items) ==
    IF \E i \in 1..Len(items) : items[i].type # "dict"
    THEN Raised("AttributeError")
    ELSE Returned([i \in 1..Len(items) |-> DashboardOfClient(items[i])])

ClientItems(unwrapped) ==
    IF unwrapped.type = "list" THEN unwrapped.items ELSE <<unwrapped>>

\* GrafanaMCP.list_dashboards after _call returned data
GrafanaMCP_normalize(data) ==
    IF ~PyTruthy(data) THEN Returned(<<>>)
    ELSE ClientRecords(ClientItems(ClientUnwrap(data)))

\* lines 64-81: the exception of _call leaves list_dashboards
ClientCalled(called) ==
    IF called.kind = "raise" THEN called ELSE GrafanaMCP_normalize(called.value)

\* GrafanaMCP.list_dashboards after session.call_tool ended with r
GrafanaMCP_list_dashboards(r) == ClientCalled(GrafanaMCP_call(r))

-----------------------------------------------------------------------------
(* datetime.fromisoformat of Python 3.11 for the extended format             *)
(* YYYY-MM-DD[*HH[:MM[:SS[.f+]]][+HH:MM]], * any one character.  The basic    *)
(* format, week dates and offsets written otherwise than +HH:MM, which      *)
(* fromisoformat accepts as well, are left out.                              *)

\* s is a non-empty string of digits
IsDigits(s) == s # "" /\ \A i \in 1..Len(s) : CharAt(s, i) \in Digits

\* int(c) of a digit
DigitValue(c) == CHOOSE n \in 0..9 : CharAt("0123456789", n + 1) = c

\* int(s) of a string of digits
RECURSIVE ToNat(_)
ToNat(s) ==
    IF s = "" THEN 0
    ELSE 10 * ToNat(SubSeq(s, 1, Len(s) - 1)) + DigitValue(CharAt(s, Len(s)))

IsLeap(y) == (y % 4 = 0 /\ y % 100 # 0) \/ y % 400 = 0

DaysInMonth(y, m) ==
    IF m = 2 THEN (IF IsLeap(y) THEN 29 ELSE 28)
    ELSE IF m \in {4, 6, 9, 11} THEN 30
    ELSE 31

IsoFail == [ok |-> FALSE]

\* the date of the ten characters d
IsoDate(d) ==
    IF /\ Len(d) = 10
       /\ IsDigits(SubSeq(d, 1, 4)) /\ CharAt(d, 5) = "-"
       /\ IsDigits(SubSeq(d, 6, 7)) /\ CharAt(d, 8) = "-"
       /\ IsDigits(SubSeq(d, 9, 10))
       /\ ToNat(SubSeq(d, 1, 4)) >= 1
       /\ ToNat(SubSeq(d, 6, 7)) \in 1..12
       /\ ToNat(SubSeq(d, 9, 10)) \in
              1..DaysInMonth(ToNat(SubSeq(d, 1, 4)), ToNat(SubSeq(d, 6, 7)))
    THEN [ok |-> TRUE, year |-> ToNat(SubSeq(d, 1, 4)),
          month |-> ToNat(SubSeq(d, 6, 7)), day |-> ToNat(SubSeq(d, 9, 10))]
    ELSE IsoFail

\* the microseconds of the fraction digits f: at most six of them count
Microseconds(f) == ToNat(SubSeq(f \o "000000", 1, 6))

\* the time of day t: HH, HH:MM, HH:MM:SS or HH:MM:SS.f+
IsoTime(t) ==
    IF /\ Len(t) \in {2, 5, 8} \/ Len(t) >= 10
       /\ IsDigits(SubSeq(t, 1, 2))
       /\ Len(t) >= 5 => (CharAt(t, 3) = ":" /\ IsDigits(SubSeq(t, 4, 5)))
       /\ Len(t) >= 8 => (CharAt(t, 6) = ":" /\ IsDigits(SubSeq(t, 7, 8)))
       /\ Len(t) >= 10 => (CharAt(t, 9) \in {".", ","} /\ IsDigits(SubSeq(t, 10, Len(t))))
       /\ ToNat(SubSeq(t, 1, 2)) \in 0..23
       /\ Len(t) >= 5 => ToNat(SubSeq(t, 4, 5)) \in 0..59
       /\ Len(t) >= 8 => ToNat(SubSeq(t, 7, 8)) \in 0..59
    THEN [ok |-> TRUE,
          hour |-> ToNat(SubSeq(t, 1, 2)),
          minute |-> IF Len(t) >= 5 THEN ToNat(SubSeq(t, 4, 5)) ELSE 0,
          second |-> IF Len(t) >= 8 THEN ToNat(SubSeq(t, 7, 8)) ELSE 0,
          microsecond |-> IF Len(t) >= 10 THEN Microseconds(SubSeq(t, 10, Len(t))) ELSE 0]
    ELSE IsoFail

\* a fixed-offset timezone
Timezone(seconds) == [type |-> "timezone", seconds |-> seconds]

\* the offset z: nothing (a naive datetime) or a sign and HH:MM
IsoOffset(z) ==
    IF z = "" THEN [ok |-> TRUE, tzinfo |-> PyNoneVal]
    ELSE IF /\ Len(z) = 6
            /\ CharAt(z, 1) \in {"+", "-"}
            /\ IsDigits(SubSeq(z, 2, 3)) /\ CharAt(z, 4) = ":" /\ IsDigits(SubSeq(z, 5, 6))
            /\ ToNat(SubSeq(z, 2, 3)) \in 0..23
            /\ ToNat(SubSeq(z, 5, 6)) \in 0..59
    THEN [ok |-> TRUE,
          tzinfo |-> Timezone((IF CharAt(z, 1) = "-" THEN -1 ELSE 1)
                              * (ToNat(SubSeq(z, 2, 3)) * 3600 + ToNat(SubSeq(z, 5, 6)) * 60))]
    ELSE IsoFail

\* the first position of a sign in t, Len(t) + 1 when it has none
SignPosition(t) ==
    IF \E i \in 1..Len(t) : CharAt(t, i) \in {"+", "-"}
    THEN CHOOSE i \in 1..Len(t) :
            /\ CharAt(t, i) \in {"+", "-"}
            /\ \A j \in 1..(i - 1) : CharAt(t, j) \notin {"+", "-"}
    ELSE Len(t) + 1

\* datetime(...) of the three parts, where each of them is well formed
IsoCombine(date, time, offset) ==
    IF date.ok /\ time.ok /\ offset.ok
    THEN [ok |-> TRUE,
          value |-> [year |-> date.year, month |-> date.month, day |-> date.day,
                     hour |-> time.hour, minute |-> time.minute, second |-> time.second,
                     microsecond |-> time.microsecond, tzinfo |-> offset.tzinfo]]
    ELSE IsoFail

\* the datetime of a date and of what follows its separator
IsoDateAndTime(d, t) ==
    IsoCombine(IsoDate(d), IsoTime(SubSeq(t, 1, SignPosition(t) - 1)),
               IsoOffset(SubSeq(t, SignPosition(t), Len(t))))

Midnight == [ok |-> TRUE, hour |-> 0, minute |-> 0, second |-> 0, microsecond |-> 0]

\* datetime.fromisoformat(s): ok is false where it raises ValueError
fromisoformat(s) ==
    IF Len(s) < 10 \/ Len(s) = 11 THEN IsoFail
    ELSE IF Len(s) = 10
    THEN IsoCombine(IsoDate(s), Midnight, [ok |-> TRUE, tzinfo |-> PyNoneVal])
    ELSE IsoDateAndTime(SubSeq(s, 1, 10), SubSeq(s, 12, Len(s)))

-----------------------------------------------------------------------------
(* src/src/models/query.py: TimeRange, from the specification's data model:  *)
(* a start instant and an end instant with the invariant start <= end        *)

\* the days of the months of year y before month m
RECURSIVE DaysBeforeMonth(_, _)
DaysBeforeMonth(y, m) ==
    IF m = 1 THEN 0 ELSE DaysBeforeMonth(y, m - 1) + DaysInMonth(y, m - 1)

\* the days before the first of January of year y
DaysBeforeYear(y) ==
    (y - 1) * 365 + ((y - 1) \div 4) - ((y - 1) \div 100) + ((y - 1) \div 400)

\* date.toordinal()
toordinal(dt) == DaysBeforeYear(dt.year) + DaysBeforeMonth(dt.year, dt.month) + dt.day

\* the second of the day of dt, counted in UTC where dt has an offset
UtcSecond(dt) ==
    dt.hour * 3600 + dt.minute * 60 + dt.second
    - (IF dt.tzinfo.type = "timezone" THEN dt.tzinfo.seconds ELSE 0)

\* the instant of dt as day, second of the day and microsecond
Instant(dt) ==
    <<toordinal(dt) + (UtcSecond(dt) \div 86400), UtcSecond(dt) % 86400, dt.microsecond>>

\* a <= b for two instants
NotAfter(a, b) ==
    \/ a[1] < b[1]
    \/ a[1] = b[1] /\ a[2] < b[2]
    \/ a[1] = b[1] /\ a[2] = b[2] /\ a[3] <= b[3]

\* TimeRange without the comparison of the two instants
TimeRange_Unchecked(start_time, end_time) ==
    Returned([start_time |-> start_time, end_time |-> end_time])

\* TimeRange(start_time=..., end_time=...): comparing a naive with an aware
\* datetime raises TypeError, a start after the end is refused
TimeRange(start_time, end_time) ==
    IF start_time.tzinfo.type # end_time.tzinfo.type THEN Raised("TypeError")
    ELSE IF ~NotAfter(Instant(start_time), Instant(end_time)) THEN Raised("ValueError")
    ELSE Returned([start_time |-> start_time, end_time |-> end_time])

-----------------------------------------------------------------------------
(* src/src/agent/query_parser.py: convert_relative_time *)

\* s.rfind(sub) + 1: the last position of sub in s, 0 when absent
RFind(s, sub) ==
    IF Contains(s, sub)
    THEN CHOOSE i \in 1..(Len(s) - Len(sub) + 1) :
            /\ SubSeq(s, i, i + Len(sub) - 1) = sub
            /\ \A j \in (i + 1)..(Len(s) - Len(sub) + 1) : SubSeq(s, j, j + Len(sub) - 1) # sub
    ELSE 0

\* the model's reply: the text of the response
ModelReply(text) == [kind |-> "result", text |-> text]

\* response_text[json_start:json_end] (lines 119-120, 124)
JsonSlice(text) ==
    IF RFind(text, "}") < Find(text, "{") THEN ""
    ELSE SubSeq(text, Find(text, "{"), RFind(text, "}"))

\* QueryParsingError with the message the except clause gives it
QueryParsingError(message) ==
    [kind |-> "raise", value |-> "QueryParsingError", message |-> message]

\* lines 137-140
ConvertTimes(start_time, end_time) ==
    IF ~start_time.ok \/ ~end_time.ok THEN Raised("ValueError")
    ELSE TimeRange(start_time.value, end_time.value)

\* lines 129-138
ConvertStrings(start_str, end_str) ==
    IF start_str = "" \/ end_str = "" THEN Raised("ValueError")
    ELSE ConvertTimes(fromisoformat(Replace(start_str, "Z", "+00:00")),
                      fromisoformat(Replace(end_str, "Z", "+00:00")))

\* lines 126-127: .strip() on anything but a str raises AttributeError
ConvertFields(start, end) ==
    IF start.type # "str" \/ end.type # "str" THEN Raised("AttributeError")
    ELSE ConvertStrings(Strip(start.value), Strip(end.value))

\* lines 125-127: the text decoded starts with a brace, so it decodes to a dict
ConvertDecoded(time_data) ==
    IF ~time_data.ok THEN Raised("json.JSONDecodeError")
    ELSE ConvertFields(DictGet(time_data.value, "start_time", PyStr("")),
                       DictGet(time_data.value, "end_time", PyStr("")))

\* lines 119-125
ConvertText(text) ==
    IF Find(text, "{") = 0 \/ RFind(text, "}") = 0 THEN Raised("ValueError")
    ELSE ConvertDecoded(json_loads(JsonSlice(text)))

\* the except clauses that let every exception but ValueError and its
\* subclasses through
ConvertExcept_ValueErrorOnly(tried) ==
    IF tried.kind = "return" THEN tried
    ELSE IF tried.value = "json.JSONDecodeError"
    THEN QueryParsingError("Failed to parse time conversion response")
    ELSE IF tried.value = "ValueError"
    THEN QueryParsingError("Could not convert time range")
    ELSE tried

\* the except clauses of lines 143-148
ConvertExcept(tried) ==
    IF tried.kind = "return" THEN tried
    ELSE IF tried.value = "json.JSONDecodeError"
    THEN QueryParsingError("Failed to parse time conversion response")
    ELSE IF tried.value = "ValueError"
    THEN QueryParsingError("Could not convert time range")
    ELSE QueryParsingError("Error converting time range")

\* convert_relative_time once chain.invoke ended with r
convert_relative_time(r) ==
    ConvertExcept(IF r.kind = "raise" THEN Raised(r.value) ELSE ConvertText(r.text))

-----------------------------------------------------------------------------
(* Inputs *)

\* the largest number of dashboards the gateway returns
MaxDashboards == 3

\* the largest configured timeout (AgentConfig.timeout is an int >= 1)
MaxTimeout == 2

\* the user queries, the ones of tests/test_agent.py among them
Queries ==
    {"", "   \n\t   ",
     "show me all dashboards",
     "list dashboards with prod",
     "  What Dashboards are available  ",
     "show dashboards with prod in the name",
     "dashboards with 'prod api' in the name",
     "SEARCH Prod",
     "with",
     "dashboards matching ' '",
     "when was the prod api dashboard updated",
     "analyze performance trends",
     "tell me a joke"}

\* the mappings agent_node is called with: {}, {"query": q}, and a mapping
\* that carries the initial status and response of AgentState
InputStates ==
    {EmptyDict} \cup {[query |-> q] : q \in Queries}
    \cup {[query |-> q, status |-> "pending", response |-> ""] :
              q \in {"", "show me all dashboards", "tell me a joke"}}

\* the replies of the language model
Replies ==
    {"Here are all available dashboards",
     "I cannot analyze metrics",
     "That request is OUT OF SCOPE",
     ""}

\* the exceptions llm.ainvoke raises
LLMExceptions == {"Exception", "asyncio.TimeoutError"}

\* the exceptions a gateway operation raises: the documented ones of
\* list_dashboards and search_dashboards, and those of a stand-in
GatewayExceptions ==
    {"GrafanaConnectionError", "GrafanaDataError", "GrafanaAuthError",
     "asyncio.TimeoutError", "Exception"}

DashboardTitles == <<"Prod API Dashboard", "Database Performance", "Service Health">>

\* the i-th dashboard of the inventory
SampleDashboard(i) ==
    [id |-> ToString(i),
     uid |-> "uid-" \o ToString(i),
     title |-> IF i <= Len(DashboardTitles) THEN DashboardTitles[i]
               ELSE "Dashboard " \o ToString(i),
     updated |-> "2024-01-0" \o ToString(i) \o "T00:00:00Z",
     folder_title |-> IF i % 2 = 1 THEN "Production" ELSE PyNone,
     tags |-> IF i % 3 = 0 THEN <<>> ELSE <<PyStr("prod"), PyStr("api")>>,
     org_id |-> 1,
     starred |-> (i % 2 = 0)]

\* a record whose tags the remote side filled with numbers: _parse_dashboard
\* copies the tags of the payload unchecked
IllTypedDashboard ==
    [SampleDashboard(1) EXCEPT !.title = "Numbered", !.tags = <<PyInt("7")>>]

\* the lists a gateway operation returns
GatewayLists ==
    {[j \in 1..n |-> SampleDashboard(j)] : n \in 0..MaxDashboards}
    \cup {<<IllTypedDashboard>>}

\* every record of the list has the field types DashboardMetadata declares
WellTyped(dashboards) ==
    \A j \in 1..Len(dashboards) : ~JoinRaises(dashboards[j].tags)

NoPrev == [status |-> "", error_code |-> "", response |-> ""]

-----------------------------------------------------------------------------
(* The invocations of agent_node *)

\* the state of an invocation that was just handed the mapping st
\* no function is being applied on its own
NoCall ==
    /\ operation = ""
    /\ argument = ""
    /\ remote = ""
    /\ payload = ""
    /\ call_outcome = ""

Entered(st) ==
    /\ pc = "start"
    /\ NoCall
    /\ state = st
    /\ query = ""
    /\ response_text = ""
    /\ intent = ""
    /\ filter_term = ""
    /\ result = EmptyDict
    /\ raised = ""
    /\ llm_calls = 0
    /\ tool_calls = <<>>
    /\ remote_calls = 0
    /\ clock = 0
    /\ expired = FALSE
    /\ llm_outcome = ""
    /\ gateway_outcome = ""
    /\ gateway_result = <<>>

Init ==
    /\ \E st \in InputStates : Entered(st)
    /\ timeout \in 1..MaxTimeout
    /\ prev = NoPrev
    /\ classified = ""

\* how an invocation ends: with the mapping returned or the exception raised
Finish(outcome) ==
    /\ pc' = "done"
    /\ result' = IF outcome.kind = "return" THEN outcome.value ELSE EmptyDict
    /\ raised' = IF outcome.kind = "raise" THEN outcome.value ELSE ""

\* lines 92-113: validate the query, then call the language model
AgentStart ==
    /\ pc = "start"
    /\ LET step == Receive(state) IN
        /\ query' = step.query
        /\ IF step.next = "done"
           THEN /\ Finish(Returned(step.result))
                /\ UNCHANGED llm_calls
           ELSE /\ pc' = "llm"
                /\ llm_calls' = llm_calls + 1
                /\ UNCHANGED <<result, raised>>
    /\ UNCHANGED callVars
    /\ UNCHANGED <<state, response_text, intent, filter_term, tool_calls,
                   remote_calls, timeout, clock, expired, prev, llm_outcome,
                   gateway_outcome, gateway_result, classified>>

\* lines 113-175: the model replied; the scope guard, the classifier and the
\* call of the gateway operation (search_dashboards refuses an empty term
\* before any remote call, tools.py lines 222-223)
LLMReturns ==
    /\ pc = "llm"
    /\ \E reply \in Replies :
        LET step == OnLLMReply(state, query, reply) IN
        /\ response_text' = reply
        /\ llm_outcome' = "returned"
        /\ intent' = step.intent
        /\ filter_term' = step.filter_term
        /\ IF step.next = "done"
           THEN /\ Finish(Returned(step.result))
                /\ UNCHANGED <<tool_calls, remote_calls, gateway_outcome>>
           ELSE /\ tool_calls' = Append(tool_calls, step.op)
                /\ IF step.op = "search_dashboards" /\ SearchRefused(step.filter_term)
                   THEN /\ Finish(ExceptInner(state, step.intent, "GrafanaDataError"))
                        /\ gateway_outcome' = "GrafanaDataError"
                        /\ UNCHANGED remote_calls
                   ELSE /\ pc' = "gateway"
                        /\ remote_calls' = remote_calls + 1
                        /\ UNCHANGED <<result, raised, gateway_outcome>>
    /\ UNCHANGED callVars
    /\ UNCHANGED <<state, query, llm_calls, timeout, clock, expired, prev,
                   gateway_result, classified>>

\* line 113: llm.ainvoke raised
LLMRaises ==
    /\ pc = "llm"
    /\ \E exc \in LLMExceptions :
        /\ llm_outcome' = exc
        /\ Finish(ExceptOuter(state, exc))
    /\ UNCHANGED callVars
    /\ UNCHANGED <<state, query, response_text, intent, filter_term, llm_calls,
                   tool_calls, remote_calls, timeout, clock, expired, prev,
                   gateway_outcome, gateway_result, classified>>

\* lines 134-165: the gateway operation returned a list
GatewayReturns ==
    /\ pc = "gateway"
    /\ \E ds \in GatewayLists :
        /\ gateway_result' = ds
        /\ gateway_outcome' = "returned"
        /\ Finish(OnGatewayReturn(state, intent, filter_term, ds))
    /\ UNCHANGED callVars
    /\ UNCHANGED <<state, query, response_text, intent, filter_term, llm_calls,
                   tool_calls, remote_calls, timeout, clock, expired, prev,
                   llm_outcome, classified>>

\* GatewayRaises that calls the operation a second time after a connection
\* error
GatewayRaises_Retries ==
    /\ pc = "gateway"
    /\ \E exc \in GatewayExceptions :
        /\ gateway_outcome' = exc
        /\ IF exc = "GrafanaConnectionError" /\ Len(tool_calls) = 1
           THEN /\ tool_calls' = Append(tool_calls, tool_calls[1])
                /\ remote_calls' = remote_calls + 1
                /\ UNCHANGED <<pc, result, raised>>
           ELSE /\ Finish(ExceptInner(state, intent, exc))
                /\ UNCHANGED <<tool_calls, remote_calls>>
    /\ UNCHANGED callVars
    /\ UNCHANGED <<state, query, response_text, intent, filter_term, llm_calls,
                   timeout, clock, expired, prev, llm_outcome, gateway_result,
                   classified>>

\* lines 177-213: the gateway operation raised
GatewayRaises ==
    /\ pc = "gateway"
    /\ \E exc \in GatewayExceptions :
        /\ gateway_outcome' = exc
        /\ Finish(ExceptInner(state, intent, exc))
    /\ UNCHANGED callVars
    /\ UNCHANGED <<state, query, response_text, intent, filter_term, llm_calls,
                   tool_calls, remote_calls, timeout, clock, expired, prev,
                   llm_outcome, gateway_result, classified>>

\* time passes while a call is in flight; agent_node starts no timer and never
\* reads its timeout argument
Tick ==
    /\ pc \in {"llm", "gateway"}
    /\ clock < timeout
    /\ clock' = clock + 1
    /\ expired' = (clock' >= timeout)
    /\ UNCHANGED callVars
    /\ UNCHANGED <<pc, state, query, response_text, intent, filter_term, result,
                   raised, llm_calls, tool_calls, remote_calls, timeout, prev,
                   llm_outcome, gateway_outcome, gateway_result, classified>>

\* the caller invokes the agent again (main.py, one invocation per message)
Invoke ==
    /\ pc = "done"
    /\ prev' = IF raised = "" /\ result.status # "success"
               THEN [status |-> result.status, error_code |-> result.error_code,
                     response |-> result.response]
               ELSE prev
    /\ \E st \in InputStates :
        /\ pc' = "start"
        /\ state' = st
        /\ query' = ""
        /\ response_text' = ""
        /\ intent' = ""
        /\ filter_term' = ""
        /\ result' = EmptyDict
        /\ raised' = ""
        /\ llm_calls' = 0
        /\ tool_calls' = <<>>
        /\ remote_calls' = 0
        /\ clock' = 0
        /\ expired' = FALSE
        /\ llm_outcome' = ""
        /\ gateway_outcome' = ""
        /\ gateway_result' = <<>>
    /\ UNCHANGED callVars
    /\ UNCHANGED <<timeout, classified>>

Next ==
    \/ AgentStart
    \/ LLMReturns
    \/ LLMRaises
    \/ GatewayReturns
    \/ GatewayRaises
    \/ Tick
    \/ Invoke

Spec == Init /\ [][Next]_vars

-----------------------------------------------------------------------------
(* _extract_intent applied on its own *)

\* the pieces the classifier's inputs are put together from
Fragments ==
    {"", "list", "SHOW ALL", "give me", "What Dashboards", "all dashboards",
     "with", "Where", "filter", "search", "matching", "related",
     "dashboard", "updated", "api", "Health", "when", "tell me", "about",
     "joke", "prod"}

\* the queries of TestIntentExtraction
TestQueries ==
    {"show me all dashboards", "list all dashboards", "what dashboards are available",
     "show all dashboards", "show dashboards with prod in the name",
     "dashboards with database", "filter dashboards with api",
     "when was the prod api dashboard updated",
     "when is the service health dashboard updated",
     "last update time for database performance",
     "what is the meaning of life", "tell me a joke", "explain machine learning"}

ClassifierInputs ==
    TestQueries \cup {a \o " " \o b : a \in Fragments, b \in Fragments}

InitClassifier ==
    /\ pc = "classify"
    /\ NoCall
    /\ query \in ClassifierInputs
    /\ classified = ""
    /\ state = EmptyDict
    /\ response_text = ""
    /\ intent = ""
    /\ filter_term = ""
    /\ result = EmptyDict
    /\ raised = ""
    /\ llm_calls = 0
    /\ tool_calls = <<>>
    /\ remote_calls = 0
    /\ timeout = 1
    /\ clock = 0
    /\ expired = FALSE
    /\ prev = NoPrev
    /\ llm_outcome = ""
    /\ gateway_outcome = ""
    /\ gateway_result = <<>>

\* one call of _extract_intent
Classify ==
    /\ pc = "classify"
    /\ classified' = _extract_intent(query)
    /\ pc' = "classified"
    /\ UNCHANGED callVars
    /\ UNCHANGED <<state, query, response_text, intent, filter_term, result, raised,
                   llm_calls, tool_calls, remote_calls, timeout, clock, expired,
                   prev, llm_outcome, gateway_outcome, gateway_result>>

NextClassifier == Classify

SpecClassifier == InitClassifier /\ [][NextClassifier]_vars

-----------------------------------------------------------------------------
(* the helpers of agent_node applied on their own *)

\* no invocation of agent_node is under way
NoInvocation ==
    /\ state = EmptyDict
    /\ query = ""
    /\ response_text = ""
    /\ intent = ""
    /\ filter_term = ""
    /\ result = EmptyDict
    /\ raised = ""
    /\ llm_calls = 0
    /\ tool_calls = <<>>
    /\ remote_calls = 0
    /\ timeout = 1
    /\ clock = 0
    /\ expired = FALSE
    /\ prev = NoPrev
    /\ llm_outcome = ""
    /\ gateway_outcome = ""
    /\ gateway_result = <<>>
    /\ classified = ""

agentVars == <<state, query, response_text, intent, filter_term, result, raised,
               llm_calls, tool_calls, remote_calls, timeout, clock, expired, prev,
               llm_outcome, gateway_outcome, gateway_result, classified>>

\* the filter queries of TestFilterTermExtraction
FilterTermTestQueries ==
    {"show dashboards with \"prod api\" in the name",
     "show dashboards with prod in the name",
     "dashboards with database"}

\* what a filter query is put together from: a head, a term, a tail
FilterTermHeads == {"", "show dashboards with ", "find ", "bob's boards matching "}
FilterTermTerms ==
    {"'prod api'", "\"Prod API\"", "\"bob's board\"", "''", "prod", "Prod Api", ""}
FilterTermTails == {"", " in the name", " in name", " and 'api'", " for bob's team"}

\* filter queries without quote characters
FilterTermUnquoted ==
    {"dashboards with prod",
     "dashboards with Prod API",
     "dashboards with Prod API in the name",
     "Dashboards WITH Database In The Name",
     "dashboards with cpu in the name of prod",
     "dashboards with cpu in name",
     "dashboards with   db  ",
     "dashboards with",
     "dashboards with api with auth",
     "show dashboards without errors",
     "dashboards within production",
     "dashboards matching prod",
     "find the Prod dashboards",
     "find Prod",
     "a  b",
     "  prod  ",
     "prod"}

FilterTermInputs ==
    FilterTermTestQueries
    \cup FilterTermUnquoted
    \cup {h \o t \o e : h \in FilterTermHeads, t \in FilterTermTerms,
                          e \in FilterTermTails}

\* the replies of TestOutOfScopeDetection
ScopeGuardTestReplies ==
    {"I cannot analyze dashboards for anomalies",
     "I can't recommend dashboard changes",
     "Cannot detect issues in your data",
     "Here are all available dashboards",
     "The following dashboards match your criteria",
     "Dashboard was updated 2 hours ago"}

\* what a reply is put together from
ScopeGuardHeads == {"", "Sorry, I ", "SORRY: "}
ScopeGuardPhrases ==
    {"cannot", "can't", "not able to", "not able", "out of scope", "i cannot",
     "i can't", "CANNOT", "Can't", "Not Able To", "OUT OF SCOPE", "I Cannot",
     "can not", "unable", "canno", "out of  scope", "notable", ""}
ScopeGuardTails == {"", " do that."}

ScopeGuardReplies ==
    ScopeGuardTestReplies
    \cup {h \o ph \o t : h \in ScopeGuardHeads, ph \in ScopeGuardPhrases,
                           t \in ScopeGuardTails}

\* the queries the guard is handed beside the reply
ScopeGuardQueries == {"any query", "I cannot wait, show all dashboards"}

ScopeGuardInputs ==
    {[response |-> r, query |-> q] : r \in ScopeGuardReplies, q \in ScopeGuardQueries}

\* the records the formatter's lists are made of: those of the inventory, one
\* titled like its folder, one with tags that are not strings
FormatterRecords ==
    {SampleDashboard(1), SampleDashboard(2), SampleDashboard(3),
     [SampleDashboard(1) EXCEPT !.title = "Production"],
     IllTypedDashboard}

\* the lists handed to _format_dashboard_list, records repeated or not
FormatterInputs == UNION {[1..n -> FormatterRecords] : n \in 0..MaxDashboards}

InitFunctions ==
    /\ pc = "call"
    /\ NoInvocation
    /\ remote = ""
    /\ payload = ""
    /\ call_outcome = ""
    /\ \/ /\ operation = "_extract_filter_term"
          /\ argument \in FilterTermInputs
       \/ /\ operation = "_is_out_of_scope"
          /\ argument \in ScopeGuardInputs
       \/ /\ operation = "_format_dashboard_list"
          /\ argument \in FormatterInputs

\* one call of _extract_filter_term
ApplyExtractFilterTerm ==
    /\ pc = "call"
    /\ operation = "_extract_filter_term"
    /\ call_outcome' = Returned(_extract_filter_term(argument))
    /\ pc' = "returned"
    /\ UNCHANGED <<operation, argument, remote, payload>>
    /\ UNCHANGED agentVars

\* one call of _is_out_of_scope
ApplyIsOutOfScope ==
    /\ pc = "call"
    /\ operation = "_is_out_of_scope"
    /\ call_outcome' = Returned(_is_out_of_scope(argument.response, argument.query))
    /\ pc' = "returned"
    /\ UNCHANGED <<operation, argument, remote, payload>>
    /\ UNCHANGED agentVars

\* one call of _format_dashboard_list
ApplyFormatDashboardList ==
    /\ pc = "call"
    /\ operation = "_format_dashboard_list"
    /\ call_outcome' = IF _format_dashboard_list_raises(argument)
                       THEN Raised("TypeError")
                       ELSE Returned(_format_dashboard_list(argument))
    /\ pc' = "returned"
    /\ UNCHANGED <<operation, argument, remote, payload>>
    /\ UNCHANGED agentVars

NextFunctions ==
    \/ ApplyExtractFilterTerm
    \/ ApplyIsOutOfScope
    \/ ApplyFormatDashboardList

SpecFunctions == InitFunctions /\ [][NextFunctions]_vars

-----------------------------------------------------------------------------
(* the gateway operations applied on their own *)

\* the texts a content block of the remote side carries: the payload shapes of
\* the search_dashboards tool (a bare list, a dict around the list, a single
\* record, a JSON string), records in their historical spellings, malformed
\* items, and messages that are no JSON
RemoteTexts ==
    {"[]",
     "[{\"id\": 1, \"uid\": \"prod-api\", \"title\": \"Prod API Dashboard\", \"updated\": \"2024-01-01T00:00:00Z\", \"folderTitle\": \"Production\", \"tags\": [\"prod\", \"api\"], \"orgId\": 2, \"isStarred\": true}, {\"id\": 2, \"uid\": \"db-perf\", \"title\": \"Database Performance\"}]",
     "{\"dashboards\": [{\"uid\": \"a\", \"title\": \"A\"}]}",
     "{\"results\": [{\"uid\": \"b\", \"title\": \"B\"}]}",
     "{\"results\": [{\"uid\": \"b\"}], \"dashboards\": [{\"uid\": \"a\"}]}",
     "{\"uid\": \"solo\", \"title\": \"Solo\"}",
     "{\"dashboards\": {\"uid\": \"inner\"}}",
     "{\"dashboards\": null}",
     "No dashboards found",
     "\"{\\\"uid\\\": \\\"quoted\\\"}\"",
     "null",
     "7",
     "[{\"uid\": \"a\"} {\"uid\": \"b\"}]",
     "[{\"uid\": \"a\"}, 7, null, \"x\", {\"uid\": \"b\"}, \"{\\\"uid\\\": \\\"c\\\"}\", [\"nested\"]]",
     "[{\"uid\": \"f1\", \"folder_title\": \"Ops\"}, {\"uid\": \"f2\", \"folderName\": \"Ops\"}, {\"uid\": \"f3\", \"folderTitle\": \"Ops\"}]",
     "[{\"uid\": \"u1\", \"updatedAt\": \"2024-02-02T00:00:00Z\"}, {\"uid\": \"u2\", \"updated\": \"2024-02-02T00:00:00Z\"}]",
     "[{\"uid\": \"o1\", \"org_id\": 5}, {\"uid\": \"o2\", \"orgId\": 5}]",
     "[{\"uid\": \"s1\", \"starred\": true}, {\"uid\": \"s2\", \"isStarred\": true}]",
     "[{}]",
     "{}",
     "{\"message\": \"Unauthorized\"}",
     "Error: search_dashboards failed: 401 Unauthorized",
     "   ",
     "",
     "[{\"id\": 3, \"title\": \"No key\"}]"}

\* the content lists of a result
RemoteContents ==
    {<<TextBlock(t)>> : t \in RemoteTexts}
    \cup {<<>>, <<ImageBlock>>,
          <<TextBlock("[{\"uid\": \"a\"},"), ImageBlock, TextBlock("{\"uid\": \"b\"}]")>>}

RemoteResults == {RemoteResult(c, e) : c \in RemoteContents, e \in BOOLEAN}

\* what the SSE transport raises
TransportExceptions == {"ConnectionError", "asyncio.TimeoutError"}

SearchTerms == {"", "  ", "prod"}

\* the gateway operations and the argument each is called with
GatewayCalls ==
    {[operation |-> "list_dashboards", argument |-> ""]}
    \cup {[operation |-> "search_dashboards", argument |-> t] : t \in SearchTerms}
    \cup {[operation |-> "GrafanaMCP.list_dashboards", argument |-> t] :
            t \in {"", "prod"}}

InitGateway ==
    /\ pc = "call"
    /\ NoInvocation
    /\ \E c \in GatewayCalls :
        /\ operation = c.operation
        /\ argument = c.argument
    /\ remote = ""
    /\ payload = ""
    /\ call_outcome = ""

\* search_dashboards refuses its term (tools.py lines 222-223, 238-239)
GatewayRefuses ==
    /\ pc = "call"
    /\ operation = "search_dashboards"
    /\ SearchRefused(argument)
    /\ call_outcome' = Raised("GrafanaDataError")
    /\ pc' = "returned"
    /\ UNCHANGED <<operation, argument, remote, payload>>
    /\ UNCHANGED agentVars

\* the operation opens the session and awaits session.call_tool
GatewayCallsRemote ==
    /\ pc = "call"
    /\ ~(operation = "search_dashboards" /\ SearchRefused(argument))
    /\ pc' = "remote"
    /\ remote_calls' = remote_calls + 1
    /\ UNCHANGED callVars
    /\ UNCHANGED <<state, query, response_text, intent, filter_term, result, raised,
                   llm_calls, tool_calls, timeout, clock, expired, prev,
                   llm_outcome, gateway_outcome, gateway_result, classified>>

\* the value the operation hands to its caller once session.call_tool ended
\* with r
GatewayOutcome(op, term, r) ==
    CASE op = "list_dashboards" -> list_dashboards(r)
      [] op = "search_dashboards" -> search_dashboards(term, r)
      [] op = "GrafanaMCP.list_dashboards" -> GrafanaMCP_list_dashboards(r)

\* the value the call of _call_tool / _call ended with
ValueOrNothing(called) == IF called.kind = "return" THEN called.value ELSE PyStr("")

\* the value _call_tool / _call returned, "" where it raised
PayloadOf(op, r) ==
    IF op = "GrafanaMCP.list_dashboards" THEN ValueOrNothing(GrafanaMCP_call(r))
    ELSE ValueOrNothing(_call_tool(r))

\* session.call_tool returned a result
RemoteReturns ==
    /\ pc = "remote"
    /\ \E r \in RemoteResults :
        /\ remote' = r
        /\ payload' = PayloadOf(operation, r)
        /\ call_outcome' = GatewayOutcome(operation, argument, r)
    /\ pc' = "returned"
    /\ UNCHANGED <<operation, argument>>
    /\ UNCHANGED agentVars

\* the transport failed: the session could not be opened or the call raised
RemoteFails ==
    /\ pc = "remote"
    /\ \E exc \in TransportExceptions :
        /\ remote' = RemoteFailure(exc)
        /\ call_outcome' = GatewayOutcome(operation, argument, RemoteFailure(exc))
    /\ pc' = "returned"
    /\ UNCHANGED <<operation, argument, payload>>
    /\ UNCHANGED agentVars

NextGateway ==
    \/ GatewayRefuses
    \/ GatewayCallsRemote
    \/ RemoteReturns
    \/ RemoteFails

SpecGateway == InitGateway /\ [][NextGateway]_vars

-----------------------------------------------------------------------------
(* convert_relative_time applied on its own *)

\* the relative expressions handed to the resolver
RelativeExpressions == {"last 1 hour", "yesterday"}

\* the JSON texts of the value of a field of the reply
TimeValues ==
    {"\"2024-01-01T00:00:00Z\"",
     "\"2024-01-02T00:00:00+00:00\"",
     "\" 2024-01-01T12:30:00Z \"",
     "\"2024-01-01T00:00:00\"",
     "\"\"",
     "\"  \"",
     "null",
     "1704067200",
     "\"yesterday\"",
     "\"2024-02-30T00:00:00Z\""}

\* the reply has no such field
NoField == ""

\* a member of the reply's object, nothing where the field is left out
ReplyMember(key, v) == IF v = NoField THEN <<>> ELSE <<"\"" \o key \o "\": " \o v>>

\* the object with the two fields
ReplyObject(start, end) ==
    "{" \o Join(", ", ReplyMember("start_time", start) \o ReplyMember("end_time", end)) \o "}"

\* what the model puts before and after the object
ReplyWrappers == {<<"", "">>, <<"Here is the time range:\n", "\nAll times are UTC.">>}

\* replies that are no object with the two fields
OtherReplies ==
    {"",
     "I cannot determine the time range.",
     "{",
     "}",
     "} {",
     "[\"2024-01-01T00:00:00Z\", \"2024-01-02T00:00:00Z\"]",
     "{\"start_time\": \"2024-01-01T00:00:00Z\" \"end_time\": \"2024-01-02T00:00:00Z\"}",
     "{'start_time': '2024-01-01T00:00:00Z', 'end_time': '2024-01-02T00:00:00Z'}",
     "{\"start_time\": \"2024-01-01T00:00:00Z\"} and {\"end_time\": \"2024-01-02T00:00:00Z\"}",
     "{\"start_time\": \"2024-01-02T00:00:00Z\", \"end_time\": \"2024-01-01T00:00:00Z\"}",
     "{\"start_time\": \"2024-01-01T00:00:00Z\", \"end_time\": \"2024-01-01T00:00:00Z\", \"note\": \"{}\"}"}

ResolverReplies ==
    {w[1] \o ReplyObject(start, end) \o w[2] :
        w \in ReplyWrappers, start \in TimeValues \cup {NoField}, end \in TimeValues \cup {NoField}}
    \cup OtherReplies

InitResolver ==
    /\ pc = "call"
    /\ NoInvocation
    /\ operation = "convert_relative_time"
    /\ argument \in RelativeExpressions
    /\ remote = ""
    /\ payload = ""
    /\ call_outcome = ""

\* convert_relative_time builds the prompt and awaits chain.invoke (lines
\* 105-116)
ResolverAsksModel ==
    /\ pc = "call"
    /\ operation = "convert_relative_time"
    /\ pc' = "remote"
    /\ llm_calls' = llm_calls + 1
    /\ UNCHANGED callVars
    /\ UNCHANGED <<state, query, response_text, intent, filter_term, result, raised,
                   tool_calls, remote_calls, timeout, clock, expired, prev,
                   llm_outcome, gateway_outcome, gateway_result, classified>>

\* the model replied
ModelReplies ==
    /\ pc = "remote"
    /\ operation = "convert_relative_time"
    /\ \E text \in ResolverReplies :
        /\ remote' = ModelReply(text)
        /\ call_outcome' = convert_relative_time(ModelReply(text))
    /\ pc' = "returned"
    /\ UNCHANGED <<operation, argument, payload>>
    /\ UNCHANGED agentVars

\* chain.invoke raised
ModelRaises ==
    /\ pc = "remote"
    /\ operation = "convert_relative_time"
    /\ \E exc \in LLMExceptions :
        /\ remote' = RemoteFailure(exc)
        /\ call_outcome' = convert_relative_time(RemoteFailure(exc))
    /\ pc' = "returned"
    /\ UNCHANGED <<operation, argument, payload>>
    /\ UNCHANGED agentVars

NextResolver ==
    \/ ResolverAsksModel
    \/ ModelReplies
    \/ ModelRaises

SpecResolver == InitResolver /\ [][NextResolver]_vars

-----------------------------------------------------------------------------
(* Properties *)

\* every character of s is whitespace
IsBlank(s) == \A i \in 1..Len(s) : CharAt(s, i) \in Whitespace


\* the model replied and the scope guard let the reply pass
InScope == llm_outcome = "returned" /\ ~_is_out_of_scope(response_text, query)

\* the gateway operation returned a sequence of dashboard records (the tags of
\* a record are strings)
GatewaySucceeded == gateway_outcome = "returned" /\ WellTyped(gateway_result)

\* a failure was raised by the model call, by the gateway operation or while
\* the records were formatted
LLMFailed == llm_outcome \notin {"", "returned"}
GatewayFailed == gateway_outcome \notin {"", "returned"}
FormatFailed == gateway_outcome = "returned" /\ ~WellTyped(gateway_result)

\* the failures agent_node has a handler of their own for
Anticipated == {"GrafanaConnectionError", "GrafanaDataError", "asyncio.TimeoutError"}

\* C1: an invocation whose query is empty, whitespace-only or absent returns
\* status "invalid" with the fixed guidance message that starts with "Please
\* provide a query", and calls neither the language model nor the gateway.
C1_EmptyQueryRejected ==
    (pc # "start" /\ IsBlank(Get(state, "query", ""))) =>
        /\ pc = "done"
        /\ raised = ""
        /\ result.status = "invalid"
        /\ StartsWith(result.response, "Please provide a query")
        /\ result.response =
             "Please provide a query about dashboards (e.g., 'Show me all dashboards')."
        /\ llm_calls = 0
        /\ tool_calls = <<>>
        /\ remote_calls = 0

\* a whitespace-only query was rejected, and then one with no query at all
C1_Witness ==
    /\ pc = "done"
    /\ state = EmptyDict
    /\ result.status = "invalid"
    /\ prev.error_code = "empty_query"

\* C2: whatever the classifier makes of the query, a reply that trips the scope
\* guard ends the invocation with status "out_of_scope" and no gateway
\* operation is called.
C2_OutOfScopeNoGateway ==
    (llm_outcome = "returned" /\ _is_out_of_scope(response_text, query)) =>
        /\ pc = "done"
        /\ raised = ""
        /\ result.status = "out_of_scope"
        /\ tool_calls = <<>>
        /\ remote_calls = 0

\* a query the classifier calls a filter query was ruled out of scope
C2_Witness ==
    /\ pc = "done"
    /\ llm_outcome = "returned"
    /\ _extract_intent(query) = "filter"
    /\ result.status = "out_of_scope"

C4_GetInfoRetrieves ==
    (InScope /\ _extract_intent(query) = "get_info") =>
        /\ tool_calls # <<>>
        /\ pc = "done" => result.status # "invalid"
        /\ (pc = "done" /\ GatewaySucceeded) => result.status = "success"

\* C5 as stated: an empty sequence from the gateway gives status "success" and
\* the response "No dashboards found." for list intent, "No dashboards match
\* your criteria: '<term>'" for filter intent.
C5_EmptyResult_AsStated ==
    (pc = "done" /\ gateway_outcome = "returned" /\ gateway_result = <<>>) =>
        /\ raised = ""
        /\ result.status = "success"
        /\ intent = "list" => result.response = "No dashboards found."
        /\ intent = "filter" =>
              result.response = "No dashboards match your criteria: '" \o filter_term \o "'"

\* C5 as amended: an empty sequence from the gateway gives status "success"
\* (never "error") and the response "No dashboards found in Grafana." for list
\* and unknown intent, "No dashboards match your criteria: '<term>'" for filter
\* intent.
C5_EmptyResult ==
    (pc = "done" /\ gateway_outcome = "returned" /\ gateway_result = <<>>) =>
        /\ raised = ""
        /\ result.status = "success"
        /\ intent \in {"list", "unknown"} =>
              result.response = "No dashboards found in Grafana."
        /\ intent = "filter" =>
              result.response = "No dashboards match your criteria: '" \o filter_term \o "'"

\* a filter query whose search found nothing
C5_Witness ==
    /\ pc = "done"
    /\ gateway_outcome = "returned"
    /\ gateway_result = <<>>
    /\ intent = "filter"
    /\ filter_term = "prod api"
    /\ result.status = "success"

\* no title of a dashboard of the inventory is part of the text
NoTitleIn(text) ==
    \A j \in 1..(MaxDashboards + 1) : ~Contains(text, SampleDashboard(j).title)

\* C6 as stated: a connection-class failure of the gateway call gives status
\* "error", error_code "connection_error", the fixed unreachable-service
\* message, no "data" field and no record title in the response.
C6_ConnectionError_AsStated ==
    (pc = "done" /\ gateway_outcome = "GrafanaConnectionError") =>
        /\ raised = ""
        /\ result.status = "error"
        /\ result.error_code = "connection_error"
        /\ result.response = ConnectionErrorMessage
        /\ "data" \notin DOMAIN result
        /\ NoTitleIn(result.response)

\* C6 as amended: the same with error_code "grafana_connection_error".
C6_ConnectionError ==
    (pc = "done" /\ gateway_outcome = "GrafanaConnectionError") =>
        /\ raised = ""
        /\ result.status = "error"
        /\ result.error_code = "grafana_connection_error"
        /\ result.response =
             "Unable to connect to Grafana. Please check your configuration and ensure the MCP server is running."
        /\ "data" \notin DOMAIN result
        /\ NoTitleIn(result.response)

\* the search of a filter query failed with a connection error
C6_Witness ==
    /\ pc = "done"
    /\ gateway_outcome = "GrafanaConnectionError"
    /\ tool_calls = <<"search_dashboards">>
    /\ result.status = "error"

\* C7: when the configured timeout expires while the model call or the gateway
\* call is in flight, the invocation ends with status "error", error_code
\* "timeout" and the timeout message, whatever arrives afterwards.
C7_TimeoutWins ==
    (pc = "done" /\ expired) =>
        /\ raised = ""
        /\ result.status = "error"
        /\ Get(result, "error_code", "") = "timeout"
        /\ result.response = TimeoutMessage

\* C8: no failure leaves agent_node: after a failure of the model call, of the
\* gateway operation or of the formatting, agent_node returns status "error",
\* and a failure it has no handler for gives error_code "internal_error" with
\* the generic message.
C8_NoFailureEscapes ==
    /\ raised = ""
    /\ (pc = "done" /\ (LLMFailed \/ GatewayFailed \/ FormatFailed)) =>
          result.status = "error"
    /\ (pc = "done" /\ (\/ LLMFailed /\ llm_outcome \notin Anticipated
                        \/ GatewayFailed /\ gateway_outcome \notin Anticipated
                        \/ FormatFailed)) =>
          /\ result.error_code = "internal_error"
          /\ result.response = "An unexpected error occurred. Please try again."

\* after an internal error, an authentication error of the gateway was turned
\* into an internal error as well
C8_Witness ==
    /\ pc = "done"
    /\ gateway_outcome = "GrafanaAuthError"
    /\ result.status = "error"
    /\ prev.error_code = "internal_error"

\* C9 as stated: two invocations that end without success and with the same
\* error kind return the same message.
C9_MessagePerKind_AsStated ==
    (/\ pc = "done"
     /\ raised = ""
     /\ result.status # "success"
     /\ prev.error_code = result.error_code) =>
        result.response = prev.response

\* C9 as amended: the same for every error kind of agent_node but out_of_scope,
\* whose message is the reply of the model.
C9_MessagePerKind ==
    /\ (/\ pc = "done"
        /\ raised = ""
        /\ result.status # "success"
        /\ result.error_code # "out_of_scope"
        /\ prev.error_code = result.error_code) =>
           result.response = prev.response
    /\ (pc = "done" /\ raised = "" /\ result.status = "out_of_scope") =>
           /\ result.error_code = "out_of_scope"
           /\ result.response = response_text

\* two invocations ended with an internal error, the second one after an
\* authentication error of the gateway
C9_Witness ==
    /\ pc = "done"
    /\ raised = ""
    /\ result.status = "error"
    /\ result.error_code = "internal_error"
    /\ prev.error_code = "internal_error"
    /\ gateway_outcome = "GrafanaAuthError"
    /\ state # EmptyDict
    /\ state.query = "SEARCH Prod"

\* C10: _extract_intent is total and tests its keyword sets in a fixed order on
\* the lowercased query: a list keyword gives "list" even beside a filter
\* keyword, else a filter keyword gives "filter", else a dashboard-context word
\* together with an info word gives "get_info", else "unknown".
C10_ClassifierPriority ==
    pc = "classified" =>
        LET ql == Lower(query)
            has_list == ContainsAny(ql,
                {"show all", "list", "give me", "what dashboards", "all dashboards"})
            has_filter == ContainsAny(ql,
                {"with", "where", "filter", "search", "matching", "related"})
            has_context == ContainsAny(ql,
                {"dashboard", "updated", "last", "created", "database", "service",
                 "api", "performance", "health"})
            has_info == ContainsAny(ql,
                {"when", "what", "tell me", "info", "about", "time", "update"})
        IN  /\ classified \in {"list", "filter", "get_info", "unknown"}
            /\ has_list => classified = "list"
            /\ (~has_list /\ has_filter) => classified = "filter"
            /\ (~has_list /\ ~has_filter /\ has_context /\ has_info) =>
                  classified = "get_info"
            /\ (~has_list /\ ~has_filter /\ ~(has_context /\ has_info)) =>
                  classified = "unknown"

\* a query with a list keyword and a filter keyword was classified as list
C10_Witness ==
    /\ pc = "classified"
    /\ Contains(Lower(query), "list")
    /\ Contains(Lower(query), "where")
    /\ classified = "list"

\* C14: search_dashboards called with an empty or whitespace-only term makes no
\* remote tool call and fails with GrafanaDataError, so a filter query whose
\* extracted term is blank ends as a data error without reaching the network.
C14_BlankSearchRefused ==
    (tool_calls # <<>> /\ tool_calls[1] = "search_dashboards"
        /\ IsBlank(filter_term)) =>
        /\ remote_calls = 0
        /\ pc = "done"
        /\ gateway_outcome = "GrafanaDataError"
        /\ raised = ""
        /\ result.status = "error"
        /\ result.error_code = "grafana_data_error"

\* a filter query gave a term of one space and the search was refused
C14_Witness ==
    /\ pc = "done"
    /\ tool_calls = <<"search_dashboards">>
    /\ filter_term = " "
    /\ remote_calls = 0
    /\ result.error_code = "grafana_data_error"

-----------------------------------------------------------------------------
(* Properties of the helpers applied on their own *)

QuoteChars == {"'", "\""}

\* the positions of the quote characters of q that have a partner: the same
\* character further right
OpeningQuotes(q) ==
    {i \in 1..Len(q) :
        /\ CharAt(q, i) \in QuoteChars
        /\ \E j \in (i + 1)..Len(q) : CharAt(q, j) = CharAt(q, i)}

Min(S) == CHOOSE x \in S : \A y \in S : x <= y

\* the content between the first pair of matching quotes of q
FirstQuoted(q) ==
    LET i == Min(OpeningQuotes(q))
        j == Min({k \in (i + 1)..Len(q) : CharAt(q, k) = CharAt(q, i)})
    IN  SubSeq(q, i + 1, j - 1)

\* C11: for a query with a substring enclosed in a pair of matching single or
\* double quotes, _extract_filter_term returns exactly the content between the
\* first pair of matching quotes, in its original case, also when the query
\* contains the word "with".
C11_QuotedTermFirst ==
    (pc = "returned" /\ operation = "_extract_filter_term"
        /\ OpeningQuotes(argument) # {}) =>
        call_outcome = Returned(FirstQuoted(argument))

\* s has an occurrence of sub starting at position i
OccursAt(s, sub, i) == i + Len(sub) - 1 <= Len(s) /\ SubSeq(s, i, i + Len(sub) - 1) = sub

\* C12: _is_out_of_scope returns true exactly when the lowercased reply has
\* one of the seven fixed phrases as a substring, false otherwise, whatever
\* the query is.
C12_ScopeGuardPhrases ==
    (pc = "returned" /\ operation = "_is_out_of_scope") =>
        LET lowered == Lower(argument.response)
            flagged ==
                \E phrase \in {"cannot", "can't", "not able to", "not able",
                               "out of scope", "i cannot", "i can't"} :
                    \E i \in 1..Len(lowered) : OccursAt(lowered, phrase, i)
        IN  call_outcome = Returned(flagged)

\* the guard flagged a reply that has a phrase in capitals only
C12_Witness ==
    /\ pc = "returned"
    /\ operation = "_is_out_of_scope"
    /\ argument.response = "SORRY: OUT OF SCOPE do that."
    /\ call_outcome = Returned(TRUE)

\* the number of occurrences of sub in s
Occurrences(s, sub) == Cardinality({i \in 1..Len(s) : OccursAt(s, sub, i)})

\* the lines of text that open with a number of 1..n, a full stop and a space
NumberedLines(text, n) ==
    LET IsNumbered(line) == \E k \in 1..n : StartsWith(line, ToString(k) \o ". ")
    IN  SelectSeq(Split(text, "\n"), IsNumbered)

\* C13 as stated: for a non-empty list of N records the text opens with
\* "Found N dashboard(s):", has exactly N numbered entries, numbered 1..N in
\* list order, and the title of every record occurs in it exactly once.
C13_FormatList_AsStated ==
    (pc = "returned" /\ operation = "_format_dashboard_list"
        /\ argument # <<>> /\ WellTyped(argument)) =>
        /\ call_outcome.kind = "return"
        /\ StartsWith(call_outcome.value,
                      "Found " \o ToString(Len(argument)) \o " dashboard(s):")
        /\ Len(NumberedLines(call_outcome.value, Len(argument))) = Len(argument)
        /\ \A k \in 1..Len(argument) :
              /\ StartsWith(NumberedLines(call_outcome.value, Len(argument))[k],
                            ToString(k) \o ". ")
              /\ Occurrences(call_outcome.value, argument[k].title) = 1

\* C13: for a non-empty list of N well-typed records the text opens with the
\* line "Found N dashboard(s):" and has exactly N numbered entry lines; the
\* k-th of them is "k. " followed by the title of the k-th record, verbatim.
C13_FormatList ==
    (pc = "returned" /\ operation = "_format_dashboard_list"
        /\ argument # <<>> /\ WellTyped(argument)) =>
        /\ call_outcome.kind = "return"
        /\ Head(Split(call_outcome.value, "\n")) =
              "Found " \o ToString(Len(argument)) \o " dashboard(s):"
        /\ NumberedLines(call_outcome.value, Len(argument)) =
              [k \in 1..Len(argument) |-> ToString(k) \o ". " \o argument[k].title]

\* three records were formatted, two of them with the same title
C13_Witness ==
    /\ pc = "returned"
    /\ operation = "_format_dashboard_list"
    /\ Len(argument) = 3
    /\ WellTyped(argument)
    /\ argument[1].title = argument[3].title
    /\ argument[1].title # argument[2].title
    /\ call_outcome.kind = "return"
    /\ Occurrences(call_outcome.value, "3. " \o argument[3].title) = 1

-----------------------------------------------------------------------------
(* Properties of the gateway operations applied on their own *)

\* a gateway operation of GrafanaMCPTool ended after _call_tool returned
ToolParsed ==
    /\ pc = "returned"
    /\ operation \in {"list_dashboards", "search_dashboards"}
    /\ remote_calls > 0
    /\ remote.kind = "result"

\* GrafanaMCP.list_dashboards ended after _call returned
ClientParsed ==
    /\ pc = "returned"
    /\ operation = "GrafanaMCP.list_dashboards"
    /\ remote.kind = "result"
    /\ ~(call_outcome.kind = "raise" /\ call_outcome.value = "GrafanaError")

\* the operation ended the way expected says: by the same return value or by
\* the same exception
EndedAs(expected) ==
    /\ call_outcome.kind = expected.kind
    /\ call_outcome.value = expected.value

\* the normalization rule: a decode pass for a string only
RuleDecoded(p, decoded) == IF decoded.ok THEN decoded.value ELSE p
RuleDecode(p) ==
    IF p.type = "str" THEN RuleDecoded(p, json_loads(p.value)) ELSE p

\* a dict is unwrapped under "dashboards", else under "results", else stands
\* for a single record
RuleUnwrap(d) ==
    IF d.type = "dict" /\ DictHas(d, "dashboards") THEN DictGet(d, "dashboards", d)
    ELSE IF d.type = "dict" /\ DictHas(d, "results") THEN DictGet(d, "results", d)
    ELSE d

\* what is still no list is wrapped as a list of one
RuleWrap(x) == IF x.type = "list" THEN x.items ELSE <<x>>

RuleNormalForm(p) == RuleWrap(RuleUnwrap(RuleDecode(p)))

\* C15 as stated: every payload, whatever its shape (a list, a dict, a
\* string), is normalized by the one rule (decode a string only; unwrap
\* "dashboards", else "results", else a single record; wrap what is no list)
\* before the records are parsed, in _parse_dashboard_list and in
\* GrafanaMCP.list_dashboards.
C15_Normalization_AsStated ==
    /\ (ToolParsed /\ payload.type \in {"list", "dict", "str"}) =>
          EndedAs(Returned(ParseItems(RuleNormalForm(payload))))
    /\ (ClientParsed /\ payload.type \in {"list", "dict", "str"}) =>
          EndedAs(ClientRecords(RuleNormalForm(payload)))

\* C15: _parse_dashboard_list normalizes every payload by the one rule before
\* the records are parsed; GrafanaMCP.list_dashboards does so for every
\* payload that is not empty (None, "", {} and [] give the empty list there).
C15_Normalization ==
    /\ ToolParsed => EndedAs(Returned(ParseItems(RuleNormalForm(payload))))
    /\ ClientParsed =>
          EndedAs(IF PyTruthy(payload)
                  THEN ClientRecords(RuleNormalForm(payload))
                  ELSE Returned(<<>>))

\* a dict with the list of b under "results" and the list of a under
\* "dashboards" gave the record of a
C15_Witness ==
    /\ ToolParsed
    /\ payload.type = "dict"
    /\ DictHas(payload, "results")
    /\ DictHas(payload, "dashboards")
    /\ call_outcome.kind = "return"
    /\ Len(call_outcome.value) = 1
    /\ call_outcome.value[1].uid = PyStr("a")

\* an item of a list payload is well formed: a dict, or the JSON text of one
DecodesToDict(decoded) == decoded.ok /\ decoded.value.type = "dict"
WellFormedItem(item) ==
    \/ item.type = "dict"
    \/ item.type = "str" /\ DecodesToDict(json_loads(item.value))

\* the dict a well-formed item stands for
DictOfItem(item) == IF item.type = "str" THEN json_loads(item.value).value ELSE item

\* the records of the well-formed items of a list, in the order of the list
RecordsOfWellFormed(good) ==
    [k \in 1..Len(good) |-> DashboardFromDict(DictOfItem(good[k]))]

\* C16: for a list payload _parse_dashboard_list does not fail: it returns the
\* records parsed from the well-formed items, in their original order, and
\* skips every malformed item.
C16_MalformedSkipped ==
    (ToolParsed /\ payload.type = "list") =>
        EndedAs(Returned(RecordsOfWellFormed(SelectSeq(payload.items, WellFormedItem))))

\* of seven items the four malformed ones were skipped and the records of the
\* three others returned in order
C16_Witness ==
    /\ ToolParsed
    /\ payload.type = "list"
    /\ Len(payload.items) = 7
    /\ call_outcome.kind = "return"
    /\ Len(call_outcome.value) = 3
    /\ call_outcome.value[1].uid = PyStr("a")
    /\ call_outcome.value[2].uid = PyStr("b")
    /\ call_outcome.value[3].uid = PyStr("c")

\* the logical fields of a record that have several spellings in the remote
\* data, each with the field of DashboardMetadata it is stored in
SpellingGroups ==
    {[field |-> "folder_title", spellings |-> {"folderTitle", "folder_title", "folderName"}],
     [field |-> "updated", spellings |-> {"updated", "updatedAt"}],
     [field |-> "org_id", spellings |-> {"orgId", "org_id"}],
     [field |-> "starred", spellings |-> {"isStarred", "starred"}]}

\* the dict d supplies the logical field of group g under the spelling s only
OnlySpelling(d, g, s) ==
    /\ DictHas(d, s)
    /\ \A t \in g.spellings \ {s} : ~DictHas(d, t)

\* every item of a list payload is a dict
AllDicts(p) == p.type = "list" /\ \A k \in 1..Len(p.items) : p.items[k].type = "dict"

\* C17: a record that supplies a logical field under one of its alternate
\* spellings only (folderTitle / folder_title / folderName, updated /
\* updatedAt, orgId / org_id, isStarred / starred) is parsed into a record whose
\* corresponding field holds that value.
C17_AlternateSpellings ==
    (ToolParsed /\ AllDicts(payload)) =>
        /\ call_outcome.kind = "return"
        /\ Len(call_outcome.value) = Len(payload.items)
        /\ \A k \in 1..Len(payload.items) : \A g \in SpellingGroups : \A s \in g.spellings :
               OnlySpelling(payload.items[k], g, s) =>
                   call_outcome.value[k][g.field] = DictGet(payload.items[k], s, PyNoneVal)

\* the dict d has none of the keys
HasNone(d, keys) == \A key \in keys : ~DictHas(d, key)

\* the fields of a record that are empty strings or false where the dict that
\* was parsed supplies them under no spelling
DefaultsOfMissing(d, record) ==
    /\ HasNone(d, {"id"}) => record.id = PyStr("")
    /\ HasNone(d, {"uid"}) => record.uid = PyStr("")
    /\ HasNone(d, {"updated", "updatedAt"}) => record.updated = PyStr("")
    /\ HasNone(d, {"isStarred", "starred"}) => record.starred = PyBool(FALSE)

\* C18: every record that gateway normalization produces has a non-empty
\* identifier or a non-empty unique key, and parsing a dict with unknown or
\* missing fields never fails: each missing field takes its empty-string /
\* false default.
C18_IdOrKeyPresent ==
    /\ (ToolParsed /\ call_outcome.kind = "return") =>
           \A k \in 1..Len(call_outcome.value) :
               ~(/\ call_outcome.value[k].id = PyStr("")
                 /\ call_outcome.value[k].uid = PyStr(""))
    /\ (ToolParsed /\ AllDicts(payload)) =>
           /\ call_outcome.kind = "return"
           /\ Len(call_outcome.value) = Len(payload.items)
           /\ \A k \in 1..Len(payload.items) :
                  DefaultsOfMissing(payload.items[k], call_outcome.value[k])

\* a gateway operation ended after its remote call ended
RemoteCallEnded == pc = "returned" /\ remote_calls > 0

\* what the operation hands to its caller when the transport fails
TransportFailureOutcomes(op, term) ==
    {GatewayOutcome(op, term, RemoteFailure(exc)) : exc \in TransportExceptions}

\* the caller is told of a failure that is not the failure a dead transport
\* gives
FailsOtherThanTransport(op, term) ==
    /\ call_outcome.kind = "raise"
    /\ \A t \in TransportFailureOutcomes(op, term) : call_outcome.value # t.value

\* C19: a transport failure, a response the remote side flags with
\* isError=true and an empty-but-successful response each lead to a different
\* result for the caller: the transport failure is raised as such, the empty
\* success returns the empty list, and the remote-reported error is a failure
\* that is neither data, nor an empty list, nor the transport failure.
C19_ThreeOutcomes ==
    RemoteCallEnded =>
        /\ remote.kind = "raise" => call_outcome.kind = "raise"
        /\ (remote.kind = "result" /\ ~remote.isError /\ remote.content = <<>>) =>
               EndedAs(Returned(<<>>))
        /\ (remote.kind = "result" /\ remote.isError) =>
               FailsOtherThanTransport(operation, argument)

-----------------------------------------------------------------------------
(* Properties of convert_relative_time applied on its own *)

\* convert_relative_time ended after the model replied
ResolverReplied ==
    /\ pc = "returned"
    /\ operation = "convert_relative_time"
    /\ remote.kind = "result"

\* the value of a field is a datetime that parses, 'Z' standing for '+00:00'
DatetimeParses(v) ==
    /\ v.type = "str"
    /\ fromisoformat(Replace(Strip(v.value), "Z", "+00:00")).ok

\* a field is missing or empty, or is a datetime that does not parse
MalformedFields(start, end) ==
    \/ start = PyStr("") \/ end = PyStr("")
    \/ ~DatetimeParses(start) \/ ~DatetimeParses(end)

\* the text between the braces is invalid JSON, or its fields are malformed
MalformedObject(decoded) ==
    \/ ~decoded.ok
    \/ MalformedFields(DictGet(decoded.value, "start_time", PyStr("")),
                       DictGet(decoded.value, "end_time", PyStr("")))

\* a malformed reply: no brace-delimited object, invalid JSON, start_time or
\* end_time missing or empty, a datetime that does not parse
MalformedReply(text) ==
    \/ Find(text, "{") = 0
    \/ RFind(text, "}") = 0
    \/ MalformedObject(json_loads(JsonSlice(text)))

\* C20 as stated: every malformed model reply yields a parsing_error
\* QueryError value with a rephrase suggestion, and no exception escapes the
\* resolver.
C20_MalformedYieldsQueryError_AsStated ==
    (ResolverReplied /\ MalformedReply(remote.text)) =>
        /\ call_outcome.kind = "return"
        /\ call_outcome.value.error_type = "parsing_error"
        /\ call_outcome.value.suggestion # ""

\* C20: every malformed model reply makes convert_relative_time raise
\* QueryParsingError: that exception leaves the resolver, no QueryError value
\* or time range is returned, and no exception of another type escapes it,
\* whatever the model replied or raised.
C20_MalformedRaisesQueryParsingError ==
    /\ (ResolverReplied /\ MalformedReply(remote.text)) =>
           /\ call_outcome.kind = "raise"
           /\ call_outcome.value = "QueryParsingError"
    /\ (pc = "returned" /\ operation = "convert_relative_time"
           /\ call_outcome.kind = "raise") =>
           call_outcome.value = "QueryParsingError"

\* a reply whose end_time is null made the resolver raise QueryParsingError
C20_Witness ==
    /\ ResolverReplied
    /\ remote.text = "{\"start_time\": \"2024-01-01T00:00:00Z\", \"end_time\": null}"
    /\ MalformedReply(remote.text)
    /\ call_outcome = QueryParsingError("Error converting time range")

-----------------------------------------------------------------------------
(* Properties of _extract_filter_term for queries without quote characters *)

\* _extract_filter_term ended on a query without quote characters
UnquotedTermExtracted ==
    /\ pc = "returned"
    /\ operation = "_extract_filter_term"
    /\ \A i \in 1..Len(argument) : CharAt(argument, i) \notin QuoteChars
    /\ call_outcome.kind = "return"

\* s ends with suffix
EndsWith(s, suffix) ==
    Len(suffix) <= Len(s) /\ SubSeq(s, Len(s) - Len(suffix) + 1, Len(s)) = suffix

\* s without the suffix it ends with, if any
WithoutTrailing(s, suffix) ==
    IF EndsWith(s, suffix) THEN SubSeq(s, 1, Len(s) - Len(suffix)) ELSE s

\* the positions of q where the word "with", in any case, starts
WithWordAt(q) ==
    {i \in 1..Len(q) :
        /\ OccursAt(Lower(q), "with", i)
        /\ (i = 1 \/ CharAt(q, i - 1) \in Whitespace)
        /\ (i + 4 > Len(q) \/ CharAt(q, i + 4) \in Whitespace)}

\* the text of q after its first word "with", in its original case, a trailing
\* suffix removed, trimmed
TermAfterWithWord(q) ==
    Strip(WithoutTrailing(WithoutTrailing(
        Strip(SubSeq(q, Min(WithWordAt(q)) + 4, Len(q))), " in the name"), " in name"))

\* the last one or two tokens of q
LastTokens(q) ==
    {Join(" ", SubSeq(Words(q), Len(Words(q)) - n + 1, Len(Words(q)))) :
        n \in {m \in {1, 2} : m <= Len(Words(q))}}

\* the terms X of a query of the form 'dashboards with X' or 'dashboards with
\* X in the name'
TermsOfForm(q) ==
    IF StartsWith(q, "dashboards with ")
    THEN {WithoutTrailing(SubSeq(q, 17, Len(q)), " in the name")} \ {""}
    ELSE {}

\* C28: for a query with no quote characters, if the query has the
\* word 'with', the term is the text after it with a trailing 'in the name' /
\* 'in name' suffix removed and trimmed; only otherwise is it the last one or
\* two tokens of the query; and for 'dashboards with X' or 'dashboards with X in
\* the name' the term contains X.
C28_Fallbacks ==
    UnquotedTermExtracted =>
        /\ WithWordAt(argument) # {} => call_outcome.value = TermAfterWithWord(argument)
        /\ (WithWordAt(argument) = {} /\ Words(argument) # <<>>) =>
               call_outcome.value \in LastTokens(argument)
        /\ \A x \in TermsOfForm(argument) : Contains(call_outcome.value, x)

-----------------------------------------------------------------------------
(* Properties of list_dashboards for the payloads of a call that did not fail *)

\* list_dashboards ended after _call_tool returned a payload
ListParsed == ToolParsed /\ operation = "list_dashboards"

\* the fields of DashboardMetadata
DashboardFields ==
    {"id", "uid", "title", "updated", "folder_title", "tags", "org_id", "starred"}

\* the payload is a string that is not valid JSON
UndecodableText(p) == p.type = "str" /\ ~json_loads(p.value).ok

-----------------------------------------------------------------------------
(* Properties of the state agent_node returns *)

\* the statuses of a finished invocation
FinalStatuses == {"success", "out_of_scope", "invalid", "error"}

\* C26: every state returned by agent_node, on every path, has a status in the
\* closed set {success, out_of_scope, invalid, error}, never the initial
\* 'pending', and a non-empty response string.
C26_ClosedStatusSet ==
    pc = "done" =>
        /\ raised = ""
        /\ {"status", "response"} \subseteq DOMAIN result
        /\ result.status \in FinalStatuses
        /\ result.response # ""

\* a mapping that came with the status 'pending' is returned with 'success',
\* after an earlier invocation ended with 'out_of_scope'
C26_Witness ==
    /\ pc = "done"
    /\ Get(state, "status", "") = "pending"
    /\ result.status = "success"
    /\ result.response # ""
    /\ prev.status = "out_of_scope"

-----------------------------------------------------------------------------
(* Properties of the order of the two calls of agent_node *)

\* C24: in every invocation of agent_node the language model is invoked at
\* most once and the gateway at most once, no call is made again after a
\* failure, the gateway call starts only after the language-model call has
\* returned, so the two are never in flight together, and the gateway is never
\* called when the language-model call failed.
C24_OneAttemptInOrder ==
    /\ llm_calls <= 1
    /\ Len(tool_calls) <= 1
    /\ remote_calls <= 1
    /\ pc = "llm" => (llm_calls = 1 /\ llm_outcome = "" /\ tool_calls = <<>>)
    /\ pc = "gateway" => (Len(tool_calls) = 1 /\ gateway_outcome = "")
    /\ tool_calls # <<>> => (llm_calls = 1 /\ llm_outcome = "returned")
    /\ LLMFailed => (tool_calls = <<>> /\ remote_calls = 0 /\ pc = "done")
    /\ GatewayFailed => pc = "done"

\* the search failed with a connection error after one call of the model and
\* one of the gateway
C24_Witness ==
    /\ pc = "done"
    /\ llm_calls = 1
    /\ tool_calls = <<"search_dashboards">>
    /\ remote_calls = 1
    /\ gateway_outcome = "GrafanaConnectionError"

-----------------------------------------------------------------------------
(* src/src/models/result.py: DataPoint, AggregationStats, MetricsQueryResult *)

\* the longest datapoint list given to the constructor
MaxPoints == 3

\* the timestamps of the datapoints: an instant (day, second of the day,
\* microsecond), and whether the datetime carries a timezone
PointTimestamps ==
    {[instant |-> <<1, s, 0>>, aware |-> FALSE] : s \in {1, 2, 3}}
    \cup {[instant |-> <<1, 2, 0>>, aware |-> TRUE]}

\* the finite values of the datapoints
PointValues == {-2, 5}

\* DataPoint(timestamp=..., value=...) with a finite value (lines 19-31)
DataPoint(timestamp, value) == [timestamp |-> timestamp, value |-> value]

DataPoints == {DataPoint(t, v) : t \in PointTimestamps, v \in PointValues}

\* the datapoint lists of at most n datapoints
DataPointLists(n) == UNION {[1..k -> DataPoints] : k \in 0..n}

\* AggregationStats (lines 34-42); mean and median are quotients
AggregationStats(min, max, mean, median, sum, count) ==
    [type |-> "AggregationStats", min |-> min, max |-> max, mean |-> mean,
     median |-> median, sum |-> sum, count |-> count]

Quotient(num, den) == [num |-> num, den |-> den]

\* comparing the timestamps of a list that holds a naive and an aware
\* datetime raises TypeError
MixedAwareness(v) ==
    \E i, j \in 1..Len(v) : v[i].timestamp.aware # v[j].timestamp.aware

\* sorted(...) is stable: a datapoint goes after those whose timestamp is not
\* later
RECURSIVE InsertByTimestamp(_, _)
InsertByTimestamp(v, dp) ==
    IF v = <<>> THEN <<dp>>
    ELSE IF ~NotAfter(Head(v).timestamp.instant, dp.timestamp.instant) THEN <<dp>> \o v
    ELSE <<Head(v)>> \o InsertByTimestamp(Tail(v), dp)

\* sort_datapoints without the sort
sort_datapoints_AsGiven(v) == v

\* sort_datapoints (lines 78-82): sorted(v, key=lambda dp: dp.timestamp)
RECURSIVE sort_datapoints(_)
sort_datapoints(v) ==
    IF v = <<>> THEN <<>>
    ELSE InsertByTimestamp(sort_datapoints(SubSeq(v, 1, Len(v) - 1)), v[Len(v)])

\* sorted(values) for the median
RECURSIVE InsertValue(_, _)
InsertValue(values, x) ==
    IF values = <<>> THEN <<x>>
    ELSE IF x < Head(values) THEN <<x>> \o values
    ELSE <<Head(values)>> \o InsertValue(Tail(values), x)

RECURSIVE SortedValues(_)
SortedValues(values) ==
    IF values = <<>> THEN <<>>
    ELSE InsertValue(SortedValues(Tail(values)), Head(values))

\* _median (lines 99-108) of a list that is not empty
_median(values) ==
    LET n == Len(values)
        mid == n \div 2
    IN  IF n % 2 = 1 THEN Quotient(SortedValues(values)[mid + 1], 1)
        ELSE Quotient(SortedValues(values)[mid] + SortedValues(values)[mid + 1], 2)

RECURSIVE SumOf(_)
SumOf(values) == IF values = <<>> THEN 0 ELSE Head(values) + SumOf(Tail(values))

\* _calculate_stats (lines 110-122) of datapoints that are not empty
_calculate_stats(datapoints) ==
    LET values == [i \in 1..Len(datapoints) |-> datapoints[i].value]
    IN  AggregationStats(SortedValues(values)[1],
                         SortedValues(values)[Len(values)],
                         Quotient(SumOf(values), Len(values)),
                         _median(values),
                         SumOf(values),
                         Len(values))

\* sync_counts without the assignments of lines 88-89
sync_counts_KeepsSupplied(self) ==
    IF self.statistics = PyNoneVal /\ ~self.is_empty
    THEN [self EXCEPT !.statistics =
              IF self.datapoints = <<>> THEN PyNoneVal
              ELSE _calculate_stats(self.datapoints)]
    ELSE self

\* sync_counts (lines 84-97); _calculate_stats raises on an empty list only,
\* which the test of line 90 excludes
sync_counts(self) ==
    LET counted == [self EXCEPT !.datapoint_count = Len(self.datapoints),
                                !.is_empty = (Len(self.datapoints) = 0)]
    IN  IF counted.statistics = PyNoneVal /\ ~counted.is_empty
        THEN [counted EXCEPT !.statistics = _calculate_stats(counted.datapoints)]
        ELSE counted

\* the fields with defaults (lines 66-76)
ResultDefaults ==
    [type |-> "MetricsQueryResult", aggregation_applied |-> PyNoneVal,
     statistics |-> PyNoneVal, is_empty |-> FALSE]

\* MetricsQueryResult(**kw): the validator of datapoints runs first, a missing
\* required field is a ValidationError, then sync_counts
MetricsQueryResult(kw) ==
    IF "datapoints" \in DOMAIN kw /\ MixedAwareness(kw.datapoints)
    THEN Raised("TypeError")
    ELSE IF ~({"metric_name", "unit", "time_range", "datapoints", "datapoint_count"}
                \subseteq DOMAIN kw)
    THEN Raised("ValidationError")
    ELSE Returned(sync_counts(
            [Merge(ResultDefaults, kw) EXCEPT !.datapoints = sort_datapoints(@)]))

-----------------------------------------------------------------------------
(* The constructor of MetricsQueryResult on datapoint lists in every order *)

\* statistics the caller computed elsewhere
SuppliedStatistics ==
    AggregationStats(0, 9, Quotient(9, 2), Quotient(9, 2), 9, 2)

\* the time range of the result: two instants
ResultTimeRange == [start_time |-> 1, end_time |-> 3]

\* the keyword arguments of the constructor
ResultArguments ==
    {Merge(Merge([metric_name |-> "cpu_usage", unit |-> "%",
                  time_range |-> ResultTimeRange, datapoints |-> v], c), e) :
        v \in DataPointLists(MaxPoints),
        c \in {EmptyDict} \cup {[datapoint_count |-> n] : n \in {0, 1, 7}},
        e \in {EmptyDict, [is_empty |-> TRUE], [is_empty |-> FALSE],
               [statistics |-> SuppliedStatistics]}}

InitResult ==
    /\ pc = "call"
    /\ NoInvocation
    /\ operation = "MetricsQueryResult"
    /\ argument \in ResultArguments
    /\ remote = ""
    /\ payload = ""
    /\ call_outcome = ""

\* the constructor runs
Construct ==
    /\ pc = "call"
    /\ operation = "MetricsQueryResult"
    /\ call_outcome' = MetricsQueryResult(argument)
    /\ pc' = "returned"
    /\ UNCHANGED <<operation, argument, remote, payload>>
    /\ UNCHANGED agentVars

NextResult == Construct

SpecResult == InitResult /\ [][NextResult]_vars

\* a MetricsQueryResult was constructed
Constructed ==
    /\ pc = "returned"
    /\ operation = "MetricsQueryResult"
    /\ call_outcome.kind = "return"

\* the sequence is ascending by timestamp
Ascending(v) ==
    \A i \in 1..(Len(v) - 1) : NotAfter(v[i].timestamp.instant, v[i + 1].timestamp.instant)

\* how often dp occurs in v
PointOccurrences(v, dp) == Cardinality({i \in 1..Len(v) : v[i] = dp})

\* the two sequences hold the same datapoints, each as often
Permutation(v, w) ==
    /\ Len(v) = Len(w)
    /\ \A dp \in DataPoints : PointOccurrences(v, dp) = PointOccurrences(w, dp)

\* C22: for every input order of datapoints, the datapoint sequence of a
\* constructed MetricsQueryResult is sorted ascending by timestamp and is a
\* permutation of the input sequence.
C22_SortedPermutation ==
    Constructed =>
        /\ Ascending(call_outcome.value.datapoints)
        /\ Permutation(call_outcome.value.datapoints, argument.datapoints)

\* a result was constructed from three datapoints given latest first
C22_Witness ==
    /\ Constructed
    /\ Len(argument.datapoints) = 3
    /\ argument.datapoints[1].timestamp.instant = <<1, 3, 0>>
    /\ argument.datapoints[2].timestamp.instant = <<1, 2, 0>>
    /\ argument.datapoints[3].timestamp.instant = <<1, 1, 0>>
    /\ call_outcome.value.datapoints[1].timestamp.instant = <<1, 1, 0>>

\* C23: for every constructed MetricsQueryResult, whatever datapoint_count
\* and is_empty the caller supplied, datapoint_count equals the length of the
\* datapoint sequence and is_empty is true exactly when that count is 0; and
\* whenever the result is non-empty and no statistics were supplied,
\* statistics are present after construction with count equal to the
\* sequence length.
C23_CountsAndStatistics ==
    Constructed =>
        /\ call_outcome.value.datapoint_count = Len(call_outcome.value.datapoints)
        /\ call_outcome.value.is_empty = (call_outcome.value.datapoint_count = 0)
        /\ (call_outcome.value.datapoints # <<>> /\ "statistics" \notin DOMAIN argument) =>
               /\ call_outcome.value.statistics # PyNoneVal
               /\ call_outcome.value.statistics.count = Len(call_outcome.value.datapoints)

\* the caller said seven datapoints and empty, the result holds two datapoints
\* and their statistics
C23_Witness ==
    /\ Constructed
    /\ argument.datapoint_count = 7
    /\ "is_empty" \in DOMAIN argument
    /\ argument.is_empty
    /\ call_outcome.value.datapoint_count = 2
    /\ ~call_outcome.value.is_empty
    /\ call_outcome.value.statistics.count = 2

-----------------------------------------------------------------------------
(* src/src/models/query.py: MetricsQuery, from the specification's data      *)
(* model: a non-empty metric name, a time range, an aggregation method of    *)
(* avg/max/min/sum, a filter mapping and a confidence                         *)

AggregationMethods == {"avg", "max", "min", "sum"}

\* an exception whose str(e) is message
RaisedWith(exc, message) == [kind |-> "raise", value |-> exc, message |-> message]

\* str(e): where the text of an exception of a library is not modelled, the
\* name of its class stands for it
ExceptionText(r) == IF "message" \in DOMAIN r THEN r.message ELSE r.value

\* MetricsQuery(metric_name=..., time_range=..., aggregation=..., filters=...,
\* confidence=...): the metric names of the model are in canonical form or
\* empty
MetricsQuery(metric_name, time_range, aggregation, filters, confidence) ==
    IF \/ metric_name.type # "str"
       \/ metric_name.value = ""
       \/ aggregation.type # "str"
       \/ aggregation.value \notin AggregationMethods
    THEN Raised("ValidationError")
    ELSE Returned([type |-> "MetricsQuery", metric_name |-> metric_name.value,
                   time_range |-> time_range, aggregation |-> aggregation.value,
                   filters |-> filters, confidence |-> confidence])

-----------------------------------------------------------------------------
(* src/src/models/result.py: QueryError, MetricsQueryResult.summary *)

\* QueryError(error_type=..., message=..., suggestion=...): suggestion and
\* details are Optional[str]
QueryError(error_type, message, suggestion) ==
    [type |-> "QueryError", error_type |-> error_type, message |-> message,
     suggestion |-> suggestion, details |-> PyNone]

\* n with at least two digits
Pad2(n) == IF n < 10 THEN "0" \o ToString(n) ELSE ToString(n)

\* format(x, ".2f") of the quotient q: the quotients of the model are never
\* halfway between two hundredths
Fixed2(q) ==
    LET magnitude == IF q.num < 0 THEN -q.num ELSE q.num
        hundredths == (magnitude * 200 + q.den) \div (2 * q.den)
    IN  (IF q.num < 0 THEN "-" ELSE "")
        \o ToString(hundredths \div 100) \o "." \o Pad2(hundredths % 100)

\* the digits of n in a field of width digits
RECURSIVE PadTo(_, _)
PadTo(n, width) ==
    IF Len(ToString(n)) >= width THEN ToString(n) ELSE "0" \o PadTo(n, width - 1)

\* str(tz offset): +HH:MM or -HH:MM
OffsetText(seconds) ==
    IF seconds < 0
    THEN "-" \o Pad2((-seconds) \div 3600) \o ":" \o Pad2(((-seconds) % 3600) \div 60)
    ELSE "+" \o Pad2(seconds \div 3600) \o ":" \o Pad2((seconds % 3600) \div 60)

\* str(dt) of a datetime
DatetimeText(dt) ==
    PadTo(dt.year, 4) \o "-" \o Pad2(dt.month) \o "-" \o Pad2(dt.day) \o " "
    \o Pad2(dt.hour) \o ":" \o Pad2(dt.minute) \o ":" \o Pad2(dt.second)
    \o (IF dt.microsecond = 0 THEN "" ELSE "." \o PadTo(dt.microsecond, 6))
    \o (IF dt.tzinfo.type = "timezone" THEN OffsetText(dt.tzinfo.seconds) ELSE "")

\* the summary property (lines 124-136); statistics is never None where the
\* result is not empty
summary(self) ==
    IF self.is_empty
    THEN "No data available for " \o self.metric_name \o " in the specified time range."
    ELSE self.metric_name \o " - " \o ToString(self.datapoint_count) \o " data points\n"
         \o "  Range: " \o Fixed2(Quotient(self.statistics.min, 1)) \o " to "
         \o Fixed2(Quotient(self.statistics.max, 1)) \o " " \o self.unit \o "\n"
         \o "  Average: " \o Fixed2(self.statistics.mean) \o " " \o self.unit \o "\n"
         \o "  Time: " \o DatetimeText(self.time_range.start_time) \o " to "
         \o DatetimeText(self.time_range.end_time)

-----------------------------------------------------------------------------
(* src/src/agent/metrics_agent.py: parse_question_node *)

\* now - timedelta(hours=24)
DayBefore(dt) ==
    IF dt.day > 1 THEN [dt EXCEPT !.day = @ - 1]
    ELSE IF dt.month > 1
    THEN [dt EXCEPT !.month = @ - 1, !.day = DaysInMonth(dt.year, dt.month - 1)]
    ELSE [dt EXCEPT !.year = @ - 1, !.month = 12, !.day = 31]

\* key in time_range_data (line 99) of a dict, a str or a list
InTimeRangeData(key, d) ==
    CASE d.type = "dict" -> DictHas(d, key)
      [] d.type = "str" -> Contains(d.value, key)
      [] d.type = "list" ->
            \E i \in 1..Len(d.items) : d.items[i].type = "str" /\ d.items[i].value = key

\* datetime.fromisoformat(text) ended with parsed
IsoOutcome(parsed, text) ==
    IF parsed.ok THEN Returned(parsed.value)
    ELSE RaisedWith("ValueError", "Invalid isoformat string: '" \o text \o "'")

\* datetime.fromisoformat(v.replace('Z', '+00:00')) (lines 101, 102)
ParseIso(v) ==
    IF v.type # "str"
    THEN RaisedWith("AttributeError",
                    "'" \o v.type \o "' object has no attribute 'replace'")
    ELSE IsoOutcome(fromisoformat(Replace(v.value, "Z", "+00:00")),
                    Replace(v.value, "Z", "+00:00"))

\* line 107 once both times are parsed
EndAfterStart(start, end) ==
    IF end.kind = "raise" THEN end ELSE TimeRange(start, end.value)

\* line 102 after line 101
StartThenEnd(start, d) ==
    IF start.kind = "raise" THEN start
    ELSE EndAfterStart(start.value, ParseIso(DictGet(d, "end", PyNoneVal)))

\* lines 101-107 where both keys are in time_range_data: indexing a str or a
\* list with a key raises TypeError
SuppliedTimes(d) ==
    IF d.type # "dict"
    THEN Raised("TypeError")
    ELSE StartThenEnd(ParseIso(DictGet(d, "start", PyNoneVal)), d)

\* lines 94-107: the time range of time_range_data at the time now
ParseTimeRange(d, now) ==
    IF d.type \notin {"dict", "str", "list"}
    THEN RaisedWith("TypeError", "argument of type '" \o d.type \o "' is not iterable")
    ELSE IF InTimeRangeData("start", d) /\ InTimeRangeData("end", d)
    THEN SuppliedTimes(d)
    ELSE TimeRange(DayBefore(now), now)

\* lines 109-117
ParseQuery(parsed_data, time_range) ==
    IF time_range.kind = "raise" THEN time_range
    ELSE MetricsQuery(DictGet(parsed_data, "metric_name", PyStr("")),
                      time_range.value,
                      DictGet(parsed_data, "aggregation", PyStr("avg")),
                      EmptyDict, "0.8")

\* lines 90-117: the text decoded starts with a brace, so it decodes to a dict
ParseParsedData(parsed_data, now) ==
    IF ~parsed_data.ok THEN Raised("json.JSONDecodeError")
    ELSE ParseQuery(parsed_data.value,
                    ParseTimeRange(DictGet(parsed_data.value, "time_range", PyDict(<<>>)),
                                   now))

\* lines 84-117
ParseText(text, now) ==
    IF Find(text, "{") = 0 \/ RFind(text, "}") = 0
    THEN RaisedWith("ValueError", "No JSON found in LLM response")
    ELSE ParseParsedData(json_loads(JsonSlice(text)), now)

ParseSuggestion == "Try phrasing as: 'Show [metric_name] for [time_period]'"

\* lines 117-124: the update parse_question_node returns
ParseExcept(tried) ==
    IF tried.kind = "return"
    THEN [parsed_query |-> tried.value, error |-> PyNoneVal]
    ELSE [parsed_query |-> PyNoneVal,
          error |-> QueryError("parsing_error",
                               "Could not parse your question: " \o ExceptionText(tried),
                               ParseSuggestion)]

\* parse_question_node once get_llm and chain.invoke ended with r, at the
\* time now
parse_question_node(r, now) ==
    ParseExcept(IF r.kind = "raise" THEN r ELSE ParseText(r.text, now))

-----------------------------------------------------------------------------
(* src/src/tools/mcp_client.py: MCPClient.call_tool *)

\* the HTTP response of the MCP server
HttpResponse(status, text) == [kind |-> "http", status |-> status, text |-> text]

\* line 67-69: json.loads(text) ended with decoded
CallToolDecoded(decoded, text) ==
    IF decoded.ok THEN Returned(decoded.value)
    ELSE RaisedWith("MCPClientError",
                    "Failed to parse MCP response as JSON: json.JSONDecodeError; body="
                    \o text)

\* call_tool (lines 43-73) once the POST ended with r: a response, or an
\* exception of the transport
call_tool(r) ==
    IF r.kind = "raise"
    THEN IF r.value = "asyncio.TimeoutError"
         THEN RaisedWith("MCPClientError", "MCP server call timed out")
         ELSE IF r.value = "aiohttp.ClientError"
         THEN RaisedWith("MCPClientError",
                         "Network error when calling MCP server: " \o r.value)
         ELSE Raised(r.value)
    ELSE IF r.status >= 400
    THEN RaisedWith("MCPClientError",
                    "MCP server returned status " \o ToString(r.status) \o ": " \o r.text)
    ELSE CallToolDecoded(json_loads(r.text), r.text)

-----------------------------------------------------------------------------
(* src/src/tools/grafana_metrics_tool.py: query_grafana_metrics *)

\* an optional sign and digits
IsIntegerLiteral(s) ==
    IF s # "" /\ CharAt(s, 1) \in {"-", "+"} THEN IsDigits(SubSeq(s, 2, Len(s)))
    ELSE IsDigits(s)

\* int(s) of an integer literal
ToInt(s) ==
    IF CharAt(s, 1) = "-" THEN -ToNat(SubSeq(s, 2, Len(s)))
    ELSE IF CharAt(s, 1) = "+" THEN ToNat(SubSeq(s, 2, Len(s)))
    ELSE ToNat(s)

\* float(v) (line 50) and the validator value_is_finite; the numbers and the
\* numeric strings of the responses are integers
FloatOf(v) ==
    CASE v.type = "int" -> Returned(ToInt(v.value))
      [] v.type = "bool" -> Returned(IF v.value THEN 1 ELSE 0)
      [] v.type = "str" ->
            IF IsIntegerLiteral(Strip(v.value)) THEN Returned(ToInt(Strip(v.value)))
            ELSE RaisedWith("ValueError",
                            "could not convert string to float: '" \o v.value \o "'")
      [] OTHER -> Raised("TypeError")

\* date(1970, 1, 1).toordinal()
EpochOrdinal == 719163

\* the timestamp of a datetime
TimestampOfDatetime(parsed) ==
    IF parsed.ok
    THEN Returned([instant |-> Instant(parsed.value),
                   aware |-> parsed.value.tzinfo.type = "timezone"])
    ELSE Raised("ValidationError")

\* the validation of the field timestamp: an ISO text, or a number of seconds
\* since 1970 taken as UTC; the numbers of the responses are not negative
TimestampOf(v) ==
    CASE v.type = "str" -> TimestampOfDatetime(fromisoformat(Replace(v.value, "Z", "+00:00")))
      [] v.type = "int" /\ IsDigits(v.value) ->
            Returned([instant |-> <<EpochOrdinal + (ToNat(v.value) \div 86400),
                                    ToNat(v.value) % 86400, 0>>,
                      aware |-> TRUE])
      [] OTHER -> Raised("ValidationError")

\* DataPoint(timestamp=..., value=...) of the two converted fields
DataPointOfFields(timestamp, value) ==
    IF value.kind = "raise" THEN value
    ELSE IF timestamp.kind = "raise" THEN timestamp
    ELSE Returned(DataPoint(timestamp.value, value.value))

\* DataPoint(timestamp=dp["timestamp"], value=float(dp["value"])) (line 50)
DataPointOf(dp) ==
    IF dp.type # "dict"
    THEN Raised("TypeError")
    ELSE IF ~DictHas(dp, "timestamp") THEN RaisedWith("KeyError", "'timestamp'")
    ELSE IF ~DictHas(dp, "value") THEN RaisedWith("KeyError", "'value'")
    ELSE DataPointOfFields(TimestampOf(DictGet(dp, "timestamp", PyNoneVal)),
                           FloatOf(DictGet(dp, "value", PyNoneVal)))

\* the list comprehension of line 50 over a list
RECURSIVE DataPointsOfItems(_)
DataPointsOfItems(items) ==
    IF items = <<>> THEN Returned(<<>>)
    ELSE LET first == DataPointOf(Head(items)) IN
         IF first.kind = "raise" THEN first
         ELSE LET rest == DataPointsOfItems(Tail(items)) IN
              IF rest.kind = "raise" THEN rest
              ELSE Returned(<<first.value>> \o rest.value)

\* the list comprehension of line 50: a str and a dict are iterated too, and
\* their elements are strs
DataPointsOf(datapoints_raw) ==
    CASE datapoints_raw.type = "list" -> DataPointsOfItems(datapoints_raw.items)
      [] datapoints_raw.type = "dict" ->
            IF datapoints_raw.pairs = <<>> THEN Returned(<<>>)
            ELSE Raised("TypeError")
      [] datapoints_raw.type = "str" ->
            IF datapoints_raw.value = "" THEN Returned(<<>>)
            ELSE Raised("TypeError")
      [] OTHER -> RaisedWith("TypeError",
                             "'" \o datapoints_raw.type \o "' object is not iterable")

\* lines 52-60: the validator of datapoints raises before the errors of the
\* other fields are reported
ResultOfFields(metric_name, unit, datapoints, metrics_query) ==
    IF datapoints.kind = "raise" THEN datapoints
    ELSE IF MixedAwareness(datapoints.value) THEN Raised("TypeError")
    ELSE IF metric_name.type # "str" \/ unit.type # "str" THEN Raised("ValidationError")
    ELSE MetricsQueryResult(
            [metric_name |-> metric_name.value, unit |-> unit.value,
             time_range |-> metrics_query.time_range, datapoints |-> datapoints.value,
             aggregation_applied |-> metrics_query.aggregation,
             datapoint_count |-> Len(datapoints.value)])

\* lines 45-60
ResultOfResponse(resp, metrics_query) ==
    IF resp.type # "dict"
    THEN RaisedWith("AttributeError", "'" \o resp.type \o "' object has no attribute 'get'")
    ELSE ResultOfFields(DictGet(resp, "metric_name", PyNoneVal),
                        DictGet(resp, "unit", PyStr("")),
                        DataPointsOf(DictGet(resp, "datapoints", PyList(<<>>))),
                        metrics_query)

\* lines 60-62
ResponseExcept(tried) ==
    IF tried.kind = "return" THEN tried.value
    ELSE QueryError("invalid_query",
                    "Invalid response from MCP server: " \o ExceptionText(tried),
                    "Verify MCP server tool output format")

\* query_grafana_metrics (lines 27-62) once client.call_tool ended with
\* called: only MCPClientError is caught at line 40
query_grafana_metrics(metrics_query, called) ==
    IF called.kind = "raise"
    THEN IF called.value = "MCPClientError"
         THEN Returned(QueryError("grafana_unavailable", ExceptionText(called),
                                  "Check Grafana MCP server"))
         ELSE called
    ELSE Returned(ResponseExcept(ResultOfResponse(called.value, metrics_query)))

-----------------------------------------------------------------------------
(* src/src/agent/metrics_agent.py: execute_query_node, format_response_node *)

\* bool(x) of an Optional model object
NotNone(x) == x # PyNoneVal

\* lines 141-152: the update execute_query_node returns without a call
ExecuteWithoutCall(st) ==
    IF NotNone(st.error) THEN [query_result |-> PyNoneVal]
    ELSE [query_result |-> PyNoneVal,
          error |-> QueryError("invalid_query", "No parsed query available", PyNone)]

\* the except clause of lines 165-171 without the error
ExecuteUpdate_DropsError(ended) ==
    IF ended.kind = "raise" THEN [query_result |-> PyNoneVal]
    ELSE IF ended.value.type = "QueryError"
    THEN [query_result |-> PyNoneVal, error |-> ended.value]
    ELSE [query_result |-> ended.value, error |-> PyNoneVal]

\* lines 154-171: the update execute_query_node returns once
\* asyncio.run(query_grafana_metrics(parsed_query)) ended
ExecuteUpdate(ended) ==
    IF ended.kind = "raise"
    THEN [query_result |-> PyNoneVal,
          error |-> QueryError("grafana_unavailable",
                               "Error querying Grafana: " \o ExceptionText(ended),
                               "Check that Grafana and the MCP server are running")]
    ELSE IF ended.value.type = "QueryError"
    THEN [query_result |-> PyNoneVal, error |-> ended.value]
    ELSE [query_result |-> ended.value, error |-> PyNoneVal]

UnexpectedState == "No result or error available (unexpected state)"

\* format_response_node without the suggestion
format_response_node_MessageOnly(st) ==
    IF NotNone(st.error) THEN [final_response |-> "Error: " \o st.error.message]
    ELSE IF NotNone(st.query_result) THEN [final_response |-> summary(st.query_result)]
    ELSE [final_response |-> UnexpectedState]

\* format_response_node (lines 174-198)
format_response_node(st) ==
    IF NotNone(st.error)
    THEN [final_response |->
            "Error: " \o st.error.message
            \o (IF Truthy(st.error.suggestion)
                THEN "\nSuggestion: " \o st.error.suggestion ELSE "")]
    ELSE IF NotNone(st.query_result) THEN [final_response |-> summary(st.query_result)]
    ELSE [final_response |-> UnexpectedState]

-----------------------------------------------------------------------------
(* The metrics pipeline parse -> execute -> format of create_agent           *)
(* (metrics_agent.py lines 213-229) on one question                          *)

\* datetime.utcnow()
Nows ==
    {[year |-> 2024, month |-> 3, day |-> 1, hour |-> 0, minute |-> 0, second |-> 0,
      microsecond |-> 0, tzinfo |-> PyNoneVal],
     [year |-> 2025, month |-> 1, day |-> 1, hour |-> 9, minute |-> 30, second |-> 15,
      microsecond |-> 123456, tzinfo |-> PyNoneVal]}

\* the JSON texts of a time of the reply
SuppliedTimeValues ==
    {"\"2024-01-01T00:00:00Z\"",
     "\"2024-01-02T00:00:00Z\"",
     "\"2024-01-01T12:00:00\"",
     "\"2024-01-02T02:00:00+05:00\"",
     "\"yesterday\"",
     "1704067200"}

\* the concatenation of the sequences of seqs
RECURSIVE Flatten(_)
Flatten(seqs) == IF seqs = <<>> THEN <<>> ELSE Head(seqs) \o Flatten(Tail(seqs))

\* the object with the fields of keys that are not left out
ReplyObjectOf(keys, values) ==
    LET members == [i \in 1..Len(keys) |-> ReplyMember(keys[i], values[i])]
    IN  "{" \o Join(", ", Flatten(members)) \o "}"

MetricNameValues == {NoField, "\"cpu_usage\"", "\"\"", "5"}

AggregationValues == {NoField, "\"max\"", "\"median\""}

TimeRangeValues ==
    {NoField,
     "{\"relative\": \"last 24 hours\"}",
     "{\"start\": \"2024-01-03T00:00:00Z\"}",
     "null",
     "\"from start to end\"",
     "[\"start\", \"end\"]"}
    \cup {ReplyObjectOf(<<"start", "end">>, <<start, end>>) :
            start \in SuppliedTimeValues, end \in SuppliedTimeValues}

\* the object of the reply with the three fields
ParseReplyObject(metric_name, time_range, aggregation) ==
    ReplyObjectOf(<<"metric_name", "time_range", "aggregation">>,
                  <<metric_name, time_range, aggregation>>)

\* the replies of the model to the parse prompt
ParseReplies ==
    {w[1] \o ParseReplyObject(m, "{\"relative\": \"last 24 hours\"}", a) \o w[2] :
        w \in ReplyWrappers, m \in MetricNameValues, a \in AggregationValues}
    \cup {ParseReplyObject("\"cpu_usage\"", t, NoField) : t \in TimeRangeValues}
    \cup {"", "I do not know that metric.", "} {", "{\"metric_name\": \"cpu_usage\""}

\* the bodies of the responses of the MCP server
McpBodies ==
    {"{\"metric_name\": \"cpu_usage\", \"unit\": \"%\", \"datapoints\": [{\"timestamp\": \"2024-01-01T00:02:00Z\", \"value\": 5}, {\"timestamp\": \"2024-01-01T00:01:00Z\", \"value\": -2}]}",
     "{\"metric_name\": \"cpu_usage\", \"unit\": \"%\", \"datapoints\": [{\"timestamp\": \"2024-01-01T00:02:00\", \"value\": \"7\"}, {\"timestamp\": \"2024-01-01T00:01:00\", \"value\": 1}, {\"timestamp\": \"2024-01-01T00:03:00\", \"value\": 2}]}",
     "{\"metric_name\": \"cpu_usage\", \"unit\": \"%\", \"datapoints\": []}",
     "{\"metric_name\": \"cpu_usage\"}",
     "{\"metric_name\": \"cpu_usage\", \"datapoints\": [{\"timestamp\": 1704067200, \"value\": true}]}",
     "{\"unit\": \"%\", \"datapoints\": []}",
     "{\"error\": \"metric not found\"}",
     "{\"metric_name\": \"cpu_usage\", \"datapoints\": [{\"timestamp\": \"2024-01-01T00:02:00Z\", \"value\": 5}, {\"timestamp\": \"2024-01-01T00:01:00\", \"value\": 3}]}",
     "{\"metric_name\": \"cpu_usage\", \"datapoints\": [{\"timestamp\": \"2024-01-01T00:02:00Z\", \"value\": \"high\"}]}",
     "{\"metric_name\": \"cpu_usage\", \"datapoints\": [{\"timestamp\": \"2024-01-01T00:02:00Z\", \"value\": null}]}",
     "{\"metric_name\": \"cpu_usage\", \"datapoints\": [{\"value\": 5}]}",
     "{\"metric_name\": \"cpu_usage\", \"datapoints\": [{\"timestamp\": \"today\", \"value\": 5}]}",
     "{\"metric_name\": \"cpu_usage\", \"datapoints\": [[1704067200, 5]]}",
     "{\"metric_name\": \"cpu_usage\", \"datapoints\": {}}",
     "{\"metric_name\": \"cpu_usage\", \"datapoints\": \"none\"}",
     "{\"metric_name\": \"cpu_usage\", \"datapoints\": null}",
     "[1, 2]",
     "null",
     "upstream unavailable",
     ""}

McpResponses == {HttpResponse(status, text) : status \in {200, 503}, text \in McpBodies}

\* the exceptions of the POST
PostExceptions == {"asyncio.TimeoutError", "aiohttp.ClientError", "Exception"}

\* the exceptions that end the execute stage before the tool posts anything:
\* asyncio.run inside a running event loop, a tool object that is not callable
CallExceptions == {"RuntimeError", "TypeError"}

\* the initial state of the graph (ui.py lines 35-50)
InitialMetricsState(question) ==
    [user_question |-> question, parsed_query |-> PyNoneVal, query_result |-> PyNoneVal,
     error |-> PyNoneVal, final_response |-> ""]

MetricsQuestions == {"Show CPU usage for the last 24 hours", ""}

\* the graph invoked on the initial state, and the stages execute -> format
\* applied to an initial state that no parse stage has filled
MetricsOperations == {"metrics", "execute_query_node"}

InitMetrics ==
    /\ operation \in MetricsOperations
    /\ pc = (IF operation = "metrics" THEN "parse" ELSE "execute")
    /\ state \in {InitialMetricsState(q) : q \in MetricsQuestions}
    /\ query = ""
    /\ response_text = ""
    /\ intent = ""
    /\ filter_term = ""
    /\ result = EmptyDict
    /\ raised = ""
    /\ llm_calls = 0
    /\ tool_calls = <<>>
    /\ remote_calls = 0
    /\ timeout = 1
    /\ clock = 0
    /\ expired = FALSE
    /\ prev = NoPrev
    /\ llm_outcome = ""
    /\ gateway_outcome = ""
    /\ gateway_result = <<>>
    /\ classified = ""
    /\ argument = ""
    /\ remote = ""
    /\ payload = ""
    /\ call_outcome = ""

\* the variables the metrics pipeline leaves alone
metricsIdle == <<query, response_text, intent, filter_term, result, raised, timeout,
                 clock, expired, gateway_outcome, gateway_result, classified,
                 operation, argument, call_outcome>>

\* parse_question_node builds the chain and calls chain.invoke (lines 53-78)
ParseAsksModel ==
    /\ operation = "metrics"
    /\ pc = "parse"
    /\ pc' = "parse_llm"
    /\ llm_calls' = llm_calls + 1
    /\ UNCHANGED <<state, prev, tool_calls, remote_calls, llm_outcome, remote, payload>>
    /\ UNCHANGED metricsIdle

\* the model replied: parse_question_node returns its update (lines 81-124)
ParseModelReplies ==
    /\ operation = "metrics"
    /\ pc = "parse_llm"
    /\ \E text \in ParseReplies, now \in Nows :
        /\ payload' = text
        /\ state' = Merge(state, parse_question_node(ModelReply(text), now))
    /\ llm_outcome' = "returned"
    /\ pc' = "execute"
    /\ UNCHANGED <<prev, llm_calls, tool_calls, remote_calls, remote>>
    /\ UNCHANGED metricsIdle

\* chain.invoke raised
ParseModelRaises ==
    /\ operation = "metrics"
    /\ pc = "parse_llm"
    /\ \E exc \in LLMExceptions, now \in Nows :
        /\ llm_outcome' = exc
        /\ state' = Merge(state, parse_question_node(Raised(exc), now))
    /\ pc' = "execute"
    /\ UNCHANGED <<prev, llm_calls, tool_calls, remote_calls, remote, payload>>
    /\ UNCHANGED metricsIdle

\* execute_query_node returns at line 142 or 146
ExecuteSkips ==
    /\ operation \in MetricsOperations
    /\ pc = "execute"
    /\ NotNone(state.error) \/ ~NotNone(state.parsed_query)
    /\ prev' = state
    /\ state' = Merge(state, ExecuteWithoutCall(state))
    /\ pc' = "format"
    /\ UNCHANGED <<llm_calls, tool_calls, remote_calls, llm_outcome, remote, payload>>
    /\ UNCHANGED metricsIdle

\* the call of line 157 raises before the tool posts anything
ExecuteCallRaises ==
    /\ operation \in MetricsOperations
    /\ pc = "execute"
    /\ ~NotNone(state.error) /\ NotNone(state.parsed_query)
    /\ \E exc \in CallExceptions :
        state' = Merge(state, ExecuteUpdate(Raised(exc)))
    /\ prev' = state
    /\ tool_calls' = Append(tool_calls, "query_grafana_metrics")
    /\ pc' = "format"
    /\ UNCHANGED <<llm_calls, remote_calls, llm_outcome, remote, payload>>
    /\ UNCHANGED metricsIdle

\* execute_query_node runs the tool, which posts the request (tool line 39)
ExecuteCalls ==
    /\ operation \in MetricsOperations
    /\ pc = "execute"
    /\ ~NotNone(state.error) /\ NotNone(state.parsed_query)
    /\ prev' = state
    /\ tool_calls' = Append(tool_calls, "query_grafana_metrics")
    /\ remote_calls' = remote_calls + 1
    /\ pc' = "mcp"
    /\ UNCHANGED <<state, llm_calls, llm_outcome, remote, payload>>
    /\ UNCHANGED metricsIdle

\* the MCP server answered: the tool and execute_query_node return
McpAnswers ==
    /\ operation \in MetricsOperations
    /\ pc = "mcp"
    /\ \E r \in McpResponses :
        /\ remote' = r
        /\ state' = Merge(state, ExecuteUpdate(
                        query_grafana_metrics(state.parsed_query, call_tool(r))))
    /\ pc' = "format"
    /\ UNCHANGED <<prev, llm_calls, tool_calls, remote_calls, llm_outcome, payload>>
    /\ UNCHANGED metricsIdle

\* the POST raised
McpRaises ==
    /\ operation \in MetricsOperations
    /\ pc = "mcp"
    /\ \E exc \in PostExceptions :
        /\ remote' = RemoteFailure(exc)
        /\ state' = Merge(state, ExecuteUpdate(
                        query_grafana_metrics(state.parsed_query,
                                              call_tool(RemoteFailure(exc)))))
    /\ pc' = "format"
    /\ UNCHANGED <<prev, llm_calls, tool_calls, remote_calls, llm_outcome, payload>>
    /\ UNCHANGED metricsIdle

\* format_response_node
Format ==
    /\ operation \in MetricsOperations
    /\ pc = "format"
    /\ state' = Merge(state, format_response_node(state))
    /\ pc' = "done"
    /\ UNCHANGED <<prev, llm_calls, tool_calls, remote_calls, llm_outcome, remote, payload>>
    /\ UNCHANGED metricsIdle

NextMetrics ==
    \/ ParseAsksModel
    \/ ParseModelReplies
    \/ ParseModelRaises
    \/ ExecuteSkips
    \/ ExecuteCallRaises
    \/ ExecuteCalls
    \/ McpAnswers
    \/ McpRaises
    \/ Format

SpecMetrics == InitMetrics /\ [][NextMetrics]_vars

\* the time-range resolver and the metrics pipeline
SpecTimeRanges == (InitResolver \/ InitMetrics) /\ [][NextResolver \/ NextMetrics]_vars

-----------------------------------------------------------------------------
(* Properties of the time ranges *)

\* start <= end
RangeOrdered(time_range) ==
    NotAfter(Instant(time_range.start_time), Instant(time_range.end_time))

\* both datetimes are parsed and start is later than end
LaterStart(start, end) ==
    start.ok /\ end.ok /\ ~NotAfter(Instant(start.value), Instant(end.value))

TimesStartAfterEnd(start, end) ==
    /\ start.type = "str"
    /\ end.type = "str"
    /\ LaterStart(fromisoformat(Replace(start.value, "Z", "+00:00")),
                  fromisoformat(Replace(end.value, "Z", "+00:00")))

RangeStartAfterEnd(d) ==
    /\ d.type = "dict"
    /\ DictHas(d, "start")
    /\ DictHas(d, "end")
    /\ TimesStartAfterEnd(DictGet(d, "start", PyNoneVal), DictGet(d, "end", PyNoneVal))

DecodedStartAfterEnd(parsed_data) ==
    /\ parsed_data.ok
    /\ RangeStartAfterEnd(DictGet(parsed_data.value, "time_range", PyDict(<<>>)))

\* the reply of the model gives a start that is later than its end
ReplyStartAfterEnd(text) ==
    /\ Find(text, "{") # 0
    /\ RFind(text, "}") # 0
    /\ DecodedStartAfterEnd(json_loads(JsonSlice(text)))

\* the parse stage got a reply of the model
ParseGotReply ==
    /\ operation = "metrics"
    /\ pc \in {"execute", "mcp", "format", "done"}
    /\ llm_outcome = "returned"

\* C21: every TimeRange that time-range resolution returns, and every
\* TimeRange placed in a MetricsQuery by parse_question_node (from
\* model-supplied absolute times or from the 24-hour default), satisfies
\* start <= end; a model reply whose start is later than its end never
\* produces a query that is executed.
C21_StartNotAfterEnd ==
    /\ (ResolverReplied /\ call_outcome.kind = "return") =>
           RangeOrdered(call_outcome.value)
    /\ (operation = "metrics" /\ NotNone(state.parsed_query)) =>
           RangeOrdered(state.parsed_query.time_range)
    /\ (ParseGotReply /\ ReplyStartAfterEnd(payload)) =>
           /\ ~NotNone(state.parsed_query)
           /\ tool_calls = <<>>
           /\ remote_calls = 0

\* the model gave a start later than its end and the pipeline ended with a
\* parsing error
C21_Witness ==
    /\ ParseGotReply
    /\ pc = "done"
    /\ ReplyStartAfterEnd(payload)
    /\ state.error.error_type = "parsing_error"

-----------------------------------------------------------------------------
(* Properties of the metrics pipeline *)

\* the execute stage ended after a parse stage that produced an error
ParseErrorPassed ==
    /\ operation = "metrics"
    /\ pc \in {"format", "done"}
    /\ NotNone(prev.error)

\* 'Error: <message>' and, where a suggestion is present, a newline and
\* 'Suggestion: <suggestion>'
ErrorText(error) ==
    "Error: " \o error.message
    \o (IF error.suggestion # PyNone THEN "\nSuggestion: " \o error.suggestion ELSE "")

\* C27: in the metrics pipeline parse -> execute -> format, when the parse
\* stage produces an error the execute stage makes no gateway call and leaves
\* the error unchanged, and the final response is 'Error: <message>'
\* followed, exactly when a suggestion is present, by a newline and
\* 'Suggestion: <suggestion>'.
C27_ParseErrorFormatted ==
    /\ ParseErrorPassed =>
           /\ tool_calls = <<>>
           /\ remote_calls = 0
           /\ state.error = prev.error
           /\ ~NotNone(state.query_result)
    /\ (operation \in MetricsOperations /\ pc = "done" /\ NotNone(state.error)) =>
           state.final_response = ErrorText(state.error)

\* the model's reply held no JSON: no call was made and the response is the
\* message and the suggestion of the parse stage
C27_Witness ==
    /\ ParseErrorPassed
    /\ pc = "done"
    /\ remote_calls = 0
    /\ state.error.error_type = "parsing_error"
    /\ state.final_response =
           "Error: Could not parse your question: No JSON found in LLM response\n"
           \o "Suggestion: Try phrasing as: 'Show [metric_name] for [time_period]'"

\* C29: in the metrics pipeline started from the initial state (parsed_query,
\* query_result and error all null), after the parse stage exactly one of
\* parsed_query and error is non-null, after the execute stage exactly one of
\* query_result and error is non-null, and the format stage therefore never
\* produces the 'No result or error available (unexpected state)' response.
C29_ExactlyOneNonNull ==
    operation = "metrics" =>
        /\ pc \in {"execute", "mcp"} =>
               (NotNone(state.parsed_query) # NotNone(state.error))
        /\ pc \in {"format", "done"} =>
               (NotNone(state.query_result) # NotNone(state.error))
        /\ pc = "done" => state.final_response # UnexpectedState

\* the pipeline ended with a result of three datapoints and no error
C29_Witness ==
    /\ operation = "metrics"
    /\ pc = "done"
    /\ NotNone(state.parsed_query)
    /\ NotNone(state.query_result)
    /\ ~NotNone(state.error)
    /\ state.query_result.datapoint_count = 3

-----------------------------------------------------------------------------
(* Two invocations of agent_node that share the compiled agent of            *)
(* create_agent (agent.py lines 347-382), its language-model handle and its  *)
(* gateway object (tools.py lines 82-109). In this specification pc, state,  *)
(* the locals, result and raised hold one value per invocation; the handle   *)
(* and the gateway object are the shared log of their calls and the shared   *)
(* attributes of GrafanaMCPTool.                                             *)

Invocations == {1, 2}

\* GrafanaMCPTool.__init__ sets config and mcp_url, and no method assigns an
\* attribute afterwards; _get_session opens a session of its own for every
\* call
GatewayObject(sessions) == [mcp_url |-> "http://localhost:8000", sessions |-> sessions]

ConcurrentInputs ==
    {[query |-> q] : q \in {"", "show me all dashboards", "dashboards with prod",
                            "when was the API dashboard updated"}}
    \cup {[query |-> "list dashboards", status |-> "pending", response |-> ""]}

ConcurrentReplies == {"Here are all available dashboards", "I cannot analyze metrics"}

ConcurrentLists ==
    {<<>>, <<SampleDashboard(1)>>, <<SampleDashboard(1), SampleDashboard(2)>>}

ConcurrentLLMExceptions == {"asyncio.TimeoutError"}

ConcurrentGatewayExceptions == {"GrafanaConnectionError", "Exception"}

\* an entry of the log of the shared handles: who called what
Called(i, what) == [who |-> i, what |-> what]

InitConcurrent ==
    /\ pc = [i \in Invocations |-> "start"]
    /\ state \in [Invocations -> ConcurrentInputs]
    /\ argument = state
    /\ query = [i \in Invocations |-> ""]
    /\ response_text = [i \in Invocations |-> ""]
    /\ intent = [i \in Invocations |-> ""]
    /\ filter_term = [i \in Invocations |-> ""]
    /\ result = [i \in Invocations |-> EmptyDict]
    /\ raised = [i \in Invocations |-> ""]
    /\ llm_outcome = [i \in Invocations |-> ""]
    /\ gateway_outcome = [i \in Invocations |-> ""]
    /\ gateway_result = [i \in Invocations |-> <<>>]
    /\ llm_calls = 0
    /\ tool_calls = <<>>
    /\ remote_calls = 0
    /\ remote = GatewayObject({})
    /\ timeout = 1
    /\ clock = 0
    /\ expired = FALSE
    /\ prev = NoPrev
    /\ classified = ""
    /\ operation = "concurrent"
    /\ payload = ""
    /\ call_outcome = ""

\* the variables the invocations leave alone: the mappings given, and the
\* variables of the other specifications
concurrentIdle == <<state, argument, timeout, clock, expired, prev, classified,
                    operation, payload, call_outcome>>

\* invocation i ends with outcome
FinishOf(i, outcome) ==
    /\ pc' = [pc EXCEPT ![i] = "done"]
    /\ result' = [result EXCEPT ![i] =
                    IF outcome.kind = "return" THEN outcome.value ELSE EmptyDict]
    /\ raised' = [raised EXCEPT ![i] =
                    IF outcome.kind = "raise" THEN outcome.value ELSE ""]

\* lines 92-113 of invocation i
AgentStartOf(i) ==
    /\ operation = "concurrent"
    /\ pc[i] = "start"
    /\ LET step == Receive(state[i]) IN
        /\ query' = [query EXCEPT ![i] = step.query]
        /\ IF step.next = "done"
           THEN /\ FinishOf(i, Returned(step.result))
                /\ UNCHANGED <<tool_calls, llm_calls>>
           ELSE /\ pc' = [pc EXCEPT ![i] = "llm"]
                /\ tool_calls' = Append(tool_calls, Called(i, "llm.ainvoke"))
                /\ llm_calls' = llm_calls + 1
                /\ UNCHANGED <<result, raised>>
    /\ UNCHANGED <<response_text, intent, filter_term, llm_outcome, gateway_outcome,
                   gateway_result, remote, remote_calls>>
    /\ UNCHANGED concurrentIdle

\* LLMReturnsOf where intent and filter_term are attributes of the shared
\* gateway object instead of locals: the last writer's values are read by both
LLMReturnsOf_SharedLocals(i) ==
    /\ operation = "concurrent"
    /\ pc[i] = "llm"
    /\ \E reply \in ConcurrentReplies :
        LET step == OnLLMReply(state[i], query[i], reply) IN
        /\ response_text' = [response_text EXCEPT ![i] = reply]
        /\ llm_outcome' = [llm_outcome EXCEPT ![i] = "returned"]
        /\ intent' = [j \in Invocations |-> step.intent]
        /\ filter_term' = [j \in Invocations |-> step.filter_term]
        /\ IF step.next = "done"
           THEN /\ FinishOf(i, Returned(step.result))
                /\ UNCHANGED <<tool_calls, gateway_outcome, remote, remote_calls>>
           ELSE /\ tool_calls' = Append(tool_calls, Called(i, step.op))
                /\ IF step.op = "search_dashboards" /\ SearchRefused(step.filter_term)
                   THEN /\ FinishOf(i, ExceptInner(state[i], step.intent, "GrafanaDataError"))
                        /\ gateway_outcome' = [gateway_outcome EXCEPT ![i] = "GrafanaDataError"]
                        /\ UNCHANGED <<remote, remote_calls>>
                   ELSE /\ pc' = [pc EXCEPT ![i] = "gateway"]
                        /\ remote' = GatewayObject(remote.sessions \cup {i})
                        /\ remote_calls' = remote_calls + 1
                        /\ UNCHANGED <<result, raised, gateway_outcome>>
    /\ UNCHANGED <<query, gateway_result, llm_calls>>
    /\ UNCHANGED concurrentIdle

\* lines 113-175 of invocation i: the model replied to it
LLMReturnsOf(i) ==
    /\ operation = "concurrent"
    /\ pc[i] = "llm"
    /\ \E reply \in ConcurrentReplies :
        LET step == OnLLMReply(state[i], query[i], reply) IN
        /\ response_text' = [response_text EXCEPT ![i] = reply]
        /\ llm_outcome' = [llm_outcome EXCEPT ![i] = "returned"]
        /\ intent' = [intent EXCEPT ![i] = step.intent]
        /\ filter_term' = [filter_term EXCEPT ![i] = step.filter_term]
        /\ IF step.next = "done"
           THEN /\ FinishOf(i, Returned(step.result))
                /\ UNCHANGED <<tool_calls, gateway_outcome, remote, remote_calls>>
           ELSE /\ tool_calls' = Append(tool_calls, Called(i, step.op))
                /\ IF step.op = "search_dashboards" /\ SearchRefused(step.filter_term)
                   THEN /\ FinishOf(i, ExceptInner(state[i], step.intent, "GrafanaDataError"))
                        /\ gateway_outcome' = [gateway_outcome EXCEPT ![i] = "GrafanaDataError"]
                        /\ UNCHANGED <<remote, remote_calls>>
                   ELSE /\ pc' = [pc EXCEPT ![i] = "gateway"]
                        /\ remote' = GatewayObject(remote.sessions \cup {i})
                        /\ remote_calls' = remote_calls + 1
                        /\ UNCHANGED <<result, raised, gateway_outcome>>
    /\ UNCHANGED <<query, gateway_result, llm_calls>>
    /\ UNCHANGED concurrentIdle

\* line 113 of invocation i: llm.ainvoke raised
LLMRaisesOf(i) ==
    /\ operation = "concurrent"
    /\ pc[i] = "llm"
    /\ \E exc \in ConcurrentLLMExceptions :
        /\ llm_outcome' = [llm_outcome EXCEPT ![i] = exc]
        /\ FinishOf(i, ExceptOuter(state[i], exc))
    /\ UNCHANGED <<query, response_text, intent, filter_term, tool_calls,
                   gateway_outcome, gateway_result, remote, llm_calls, remote_calls>>
    /\ UNCHANGED concurrentIdle

\* lines 134-165 of invocation i: its gateway operation returned a list and
\* its session is closed
GatewayReturnsOf(i) ==
    /\ operation = "concurrent"
    /\ pc[i] = "gateway"
    /\ \E ds \in ConcurrentLists :
        /\ gateway_result' = [gateway_result EXCEPT ![i] = ds]
        /\ gateway_outcome' = [gateway_outcome EXCEPT ![i] = "returned"]
        /\ FinishOf(i, OnGatewayReturn(state[i], intent[i], filter_term[i], ds))
    /\ remote' = GatewayObject(remote.sessions \ {i})
    /\ UNCHANGED <<query, response_text, intent, filter_term, tool_calls, llm_outcome,
                   llm_calls, remote_calls>>
    /\ UNCHANGED concurrentIdle

\* lines 177-213 of invocation i: its gateway operation raised
GatewayRaisesOf(i) ==
    /\ operation = "concurrent"
    /\ pc[i] = "gateway"
    /\ \E exc \in ConcurrentGatewayExceptions :
        /\ gateway_outcome' = [gateway_outcome EXCEPT ![i] = exc]
        /\ FinishOf(i, ExceptInner(state[i], intent[i], exc))
    /\ remote' = GatewayObject(remote.sessions \ {i})
    /\ UNCHANGED <<query, response_text, intent, filter_term, tool_calls, llm_outcome,
                   gateway_result, llm_calls, remote_calls>>
    /\ UNCHANGED concurrentIdle

NextConcurrent ==
    \/ \E i \in Invocations : AgentStartOf(i)
    \/ \E i \in Invocations : LLMReturnsOf(i)
    \/ \E i \in Invocations : LLMRaisesOf(i)
    \/ \E i \in Invocations : GatewayReturnsOf(i)
    \/ \E i \in Invocations : GatewayRaisesOf(i)

SpecConcurrent == InitConcurrent /\ [][NextConcurrent]_vars

-----------------------------------------------------------------------------
(* Properties of two concurrent invocations *)

\* what agent_node returns for the mapping st when it runs alone and its
\* gateway operation ends with gateway_end (an exception, or "returned" with
\* the list dashboards)
AloneAfterGateway(st, step, gateway_end, dashboards) ==
    IF step.next = "done" THEN Returned(step.result)
    ELSE IF step.op = "search_dashboards" /\ SearchRefused(step.filter_term)
    THEN ExceptInner(st, step.intent, "GrafanaDataError")
    ELSE IF gateway_end # "returned" THEN ExceptInner(st, step.intent, gateway_end)
    ELSE OnGatewayReturn(st, step.intent, step.filter_term, dashboards)

\* the same from the end llm_end of llm.ainvoke (an exception, or "returned"
\* with reply)
AloneAfterModel(st, received, llm_end, reply, gateway_end, dashboards) ==
    IF received.next = "done" THEN Returned(received.result)
    ELSE IF llm_end # "returned" THEN ExceptOuter(st, llm_end)
    ELSE AloneAfterGateway(st, OnLLMReply(st, received.query, reply),
                           gateway_end, dashboards)

AloneOutcome(st, llm_end, reply, gateway_end, dashboards) ==
    AloneAfterModel(st, Receive(st), llm_end, reply, gateway_end, dashboards)

\* how invocation i ended
OutcomeOf(i) == IF raised[i] = "" THEN Returned(result[i]) ELSE Raised(raised[i])

SameOutcome(a, b) == a.kind = b.kind /\ a.value = b.value

\* C25: concurrent invocations do not interfere: for any interleaving of two
\* agent_node invocations that share the same compiled agent, language-model
\* handle and gateway object, each invocation's result (status, intent,
\* response, data) equals the result it would produce when run alone on its
\* own query, and agent_node never mutates the state mapping it was given.
C25_NoInterference ==
    operation = "concurrent" =>
        \A i \in Invocations :
            /\ state[i] = argument[i]
            /\ pc[i] = "done" =>
                   SameOutcome(OutcomeOf(i),
                               AloneOutcome(argument[i], llm_outcome[i], response_text[i],
                                            gateway_outcome[i], gateway_result[i]))

\* both invocations called the model before either called the gateway; the
\* first listed two dashboards and the second searched for 'prod' and found
\* none
C25_Witness ==
    /\ operation = "concurrent"
    /\ pc = [i \in Invocations |-> "done"]
    /\ Len(tool_calls) = 4
    /\ tool_calls[1] = Called(1, "llm.ainvoke")
    /\ tool_calls[2] = Called(2, "llm.ainvoke")
    /\ tool_calls[3] = Called(2, "search_dashboards")
    /\ tool_calls[4] = Called(1, "list_dashboards")
    /\ result[1].status = "success"
    /\ Len(result[1].data) = 2
    /\ result[2].status = "success"
    /\ result[2].data = <<>>
    /\ result[2].intent = "filter"

====
